---- MODULE Spec2Model ----
(***************************************************************************)
(* A model of the signing core of cpp-clob-client: the RLP codec and the   *)
(* EIP-155 transaction signer (src/src/order_builder.cpp), the secp256k1   *)
(* Signer (src/unnamed/part_001) and the EIP-712 value encoders            *)
(* (src/unnamed/part_000).                                                 *)
(*                                                                         *)
(* Representation.  A byte is an integer in 0..255 and a byte string a     *)
(* sequence of bytes.  A std::string is a sequence of one-character        *)
(* strings.  A uint64_t is kept at its full width as a sequence of eight   *)
(* bytes, most significant first, with arithmetic modulo 2^64 done         *)
(* byte-wise, because the values at stake (2^63, 2^64-1) do not fit the    *)
(* integers of the model checker.                                          *)
(***************************************************************************)
EXTENDS Integers, Sequences, FiniteSets, Bags, TLC

VARIABLES
    rlp_call,     \* the last call into namespace rlp: function, argument, result
    tx_call,      \* the last Transaction::sign: the transaction, the key, the outcome
    signers,      \* the Signer objects: slot -> fields and lifetime
    contexts,     \* the secp256k1 contexts created so far: id -> "live" | "destroyed"
    sig_log,      \* what the sign calls returned: a bag of [fn, key, input, sig]
    u256_call,    \* the last eip712::encode_uint256(const std::string&): input, outcome
    eip_call,     \* the last call into namespace eip712: function, arguments, outcome
    keccak_call,  \* the last keccak::hash256: message, blocks absorbed, digest
    l2_call,      \* the last create_l2_headers on its own: inputs, outcome
    client,       \* the ClobClient object: mode_, signer_, creds_, builder_, caches
    threads,      \* the calls in progress on the client: thread -> position and locals
    http_log,     \* the HTTP requests sent so far
    market_call,  \* the last calculate_*_market_price: book, amount, type, outcome
    rpc,          \* an EthRpcClient / ApprovalHelper call in progress and the node it talks to
    http          \* the HttpClient objects and their heartbeat threads

vars == <<rlp_call, tx_call, signers, contexts, sig_log, u256_call,
          eip_call, keccak_call, l2_call, client, threads, http_log,
          market_call, rpc, http>>

-----------------------------------------------------------------------------
(* Bytes, characters, 64-bit words *)

Byte == 0..255

\* n bytes: `first`, then `fill`
BytesOf(n, first, fill) == [i \in 1..n |-> IF i = 1 THEN first ELSE fill]

\* the values a byte is probed at: both ends, and both sides of RLP's 0x80 threshold
\* the element of a set of one: Only({e(x) : x \in {v}}) is e(v) with v
\* worked out once, however often e uses it
Only(S) == CHOOSE x \in S : TRUE

ProbeBytes == {0, 127, 128, 255}

HexDigits == <<"0","1","2","3","4","5","6","7","8","9","a","b","c","d","e","f">>

\* the value of a hexadecimal digit character, -1 for any other character
HexVal(c) ==
    CASE c = "0" -> 0  [] c = "1" -> 1  [] c = "2" -> 2  [] c = "3" -> 3
      [] c = "4" -> 4  [] c = "5" -> 5  [] c = "6" -> 6  [] c = "7" -> 7
      [] c = "8" -> 8  [] c = "9" -> 9
      [] c \in {"a", "A"} -> 10  [] c \in {"b", "B"} -> 11
      [] c \in {"c", "C"} -> 12  [] c \in {"d", "D"} -> 13
      [] c \in {"e", "E"} -> 14  [] c \in {"f", "F"} -> 15
      [] OTHER -> -1

IsHexDigit(c) == HexVal(c) >= 0

\* std::string::substr(pos, count), pos counted from 0; count is clipped to the end
Substr(s, pos, count) ==
    LET n == IF pos + count > Len(s) THEN Len(s) - pos ELSE count
    IN  [i \in 1..n |-> s[pos + i]]

\* std::string::substr(pos)
SubstrFrom(s, pos) == [i \in 1..(Len(s) - pos) |-> s[pos + i]]

U64Zero == [i \in 1..8 |-> 0]

\* the uint64_t whose k low bytes are `first`, then `fill`; the high bytes are zero
U64Of(k, first, fill) ==
    [i \in 1..8 |-> IF i <= 8 - k THEN 0 ELSE IF i = 9 - k THEN first ELSE fill]

\* a small number as a uint64_t (n < 2^24)
U64FromNat(n) ==
    [i \in 1..8 |-> CASE i = 8 -> n % 256
                      [] i = 7 -> (n \div 256) % 256
                      [] i = 6 -> (n \div 65536) % 256
                      [] OTHER -> 0]

\* value >>= 8
U64Shr8(value) == [i \in 1..8 |-> IF i = 1 THEN 0 ELSE value[i - 1]]

\* x * m + a over a big-endian byte string of fixed width, with the carry out of
\* the top byte: [val, carry]
RECURSIVE MulAddFrom(_, _, _, _)
MulAddFrom(x, m, carry, i) ==
    IF i = 0 THEN [val |-> x, carry |-> carry]
    ELSE Only({MulAddFrom(next, m, t \div 256, i - 1) :
                  next \in {[x EXCEPT ![i] = (x[i] * m + carry) % 256]},
                  t \in {x[i] * m + carry}})

MulAdd(x, m, a) == MulAddFrom(x, m, a, Len(x))

\* uint64_t arithmetic: the carry out of bit 63 is dropped
U64MulAdd(x, m, a) == MulAdd(x, m, a).val

\* A loop over i = lo..hi: Step(st, i) is its body, st the values it carries.
\* The range is halved rather than walked, and the left half is evaluated
\* before the right one starts, which keeps the evaluation shallow; the steps
\* and their order are those of the loop.
RECURSIVE FoldRange(_, _, _, _)
FoldRange(Step(_, _), st, lo, hi) ==
    IF lo > hi THEN st
    ELSE IF lo = hi THEN Step(st, lo)
    ELSE LET mid == (lo + hi) \div 2
             left == FoldRange(Step, st, lo, mid)
         IN  IF left = left THEN FoldRange(Step, left, mid + 1, hi) ELSE left

-----------------------------------------------------------------------------
(* namespace rlp, src/src/order_builder.cpp *)

\* while (len > 0) { len_bytes.insert(len_bytes.begin(), len & 0xff); len >>= 8; }
RECURSIVE rlp_len_bytes(_, _)
rlp_len_bytes(len, len_bytes) ==
    IF len > 0
    THEN rlp_len_bytes(len \div 256, <<len % 256>> \o len_bytes)
    ELSE len_bytes

\* variant with a defect: the single-byte rule applied to every single byte
rlp_encode_string_anybyte(data) ==
    IF Len(data) = 1 THEN <<data[1]>>
    ELSE IF Len(data) < 56 THEN <<(128 + Len(data)) % 256>> \o data
    ELSE LET len_bytes == rlp_len_bytes(Len(data), <<>>)
         IN  <<(183 + Len(len_bytes)) % 256>> \o len_bytes \o data

rlp_encode_string(data) ==
    IF Len(data) = 1 /\ data[1] < 128
    THEN <<data[1]>>
    ELSE IF Len(data) < 56
    THEN <<(128 + Len(data)) % 256>> \o data
    ELSE LET len_bytes == rlp_len_bytes(Len(data), <<>>)
         IN  <<(183 + Len(len_bytes)) % 256>> \o len_bytes \o data

\* for (const auto& item : items) payload.insert(payload.end(), item...)
RECURSIVE rlp_payload(_, _)
rlp_payload(items, i) ==
    IF i > Len(items) THEN <<>> ELSE items[i] \o rlp_payload(items, i + 1)

\* variant with a defect: the long form chosen one byte late
rlp_encode_list_late(items) ==
    LET payload == rlp_payload(items, 1)
    IN  IF Len(payload) <= 56
        THEN <<(192 + Len(payload)) % 256>> \o payload
        ELSE LET len_bytes == rlp_len_bytes(Len(payload), <<>>)
             IN  <<(247 + Len(len_bytes)) % 256>> \o len_bytes \o payload

rlp_encode_list(items) ==
    LET payload == rlp_payload(items, 1)
    IN  IF Len(payload) < 56
        THEN <<(192 + Len(payload)) % 256>> \o payload
        ELSE LET len_bytes == rlp_len_bytes(Len(payload), <<>>)
             IN  <<(247 + Len(len_bytes)) % 256>> \o len_bytes \o payload

\* while (value > 0) { bytes.insert(bytes.begin(), value & 0xff); value >>= 8; }
RECURSIVE rlp_integer_bytes(_, _)
rlp_integer_bytes(value, bytes) ==
    IF value # U64Zero
    THEN rlp_integer_bytes(U64Shr8(value), <<value[8]>> \o bytes)
    ELSE bytes

\* variant with a defect: the loop stops at the first zero byte
RECURSIVE rlp_integer_bytes_short(_, _)
rlp_integer_bytes_short(value, bytes) ==
    IF value[8] # 0
    THEN rlp_integer_bytes_short(U64Shr8(value), <<value[8]>> \o bytes)
    ELSE bytes

rlp_encode_integer_short(value) ==
    IF value = U64Zero THEN rlp_encode_string(<<>>)
    ELSE rlp_encode_string(rlp_integer_bytes_short(value, <<>>))

rlp_encode_integer(value) ==
    IF value = U64Zero
    THEN rlp_encode_string(<<>>)
    ELSE rlp_encode_string(rlp_integer_bytes(value, <<>>))

-----------------------------------------------------------------------------
(* Hex strings *)

\* What std::stoul / std::stoi (base 16) make of a substring of one or two
\* characters, cast to uint8_t; -1 when they throw std::invalid_argument.  They
\* skip white space, take a sign, and read hex digits up to the first character
\* that is none: "1z" is 1, " f" is 15, "-1" is 255, "zz" throws.
ParseByte16(s) ==
    LET c1 == s[1]
        two == Len(s) = 2 /\ IsHexDigit(s[2])
    IN  IF IsHexDigit(c1) THEN (IF two THEN 16 * HexVal(c1) + HexVal(s[2]) ELSE HexVal(c1))
        ELSE IF c1 \in {" ", "+"} THEN (IF two THEN HexVal(s[2]) ELSE -1)
        ELSE IF c1 = "-" THEN (IF two THEN (256 - HexVal(s[2])) % 256 ELSE -1)
        ELSE -1

\* for (size_t i = 0; i < h.length(); i += 2) bytes.push_back(... h.substr(i, 2) ...):
\* the byte of every pair (the last one may be a single character), and whether
\* every conversion returned
ParsePairs(h) ==
    LET n == (Len(h) + 1) \div 2
        bytes == [k \in 1..n |-> ParseByte16(Substr(h, 2 * (k - 1), 2))]
    IN  IF \A k \in 1..n : bytes[k] >= 0
        THEN [ok |-> TRUE, bytes |-> bytes]
        ELSE [ok |-> FALSE, bytes |-> <<>>]

\* while (h.length() >= 2 && h.substr(0, 2) == "00") h = h.substr(2);
RECURSIVE eth_strip_pairs(_)
eth_strip_pairs(h) ==
    IF Len(h) >= 2 /\ Substr(h, 0, 2) = <<"0", "0">>
    THEN eth_strip_pairs(SubstrFrom(h, 2))
    ELSE h

\* the static hex_to_bytes of the transaction code: [ok, bytes]; ~ok is the
\* exception of std::stoul
eth_hex_to_bytes(hex, strip_leading_zeros) ==
    LET h0 == IF Substr(hex, 0, 2) = <<"0", "x">> THEN SubstrFrom(hex, 2) ELSE hex
        h1 == IF Len(h0) % 2 = 1 THEN <<"0">> \o h0 ELSE h0
        h2 == IF strip_leading_zeros THEN eth_strip_pairs(h1) ELSE h1
    IN  IF strip_leading_zeros /\ (h2 = <<>> \/ h2 = <<"0">>)
        THEN [ok |-> TRUE, bytes |-> <<>>]
        ELSE ParsePairs(h2)

\* the static bytes_to_hex of the transaction code, and eip712::bytes_to_hex: two
\* lower-case digits a byte, after "0x"
HexOfBytes(bytes) ==
    Only({[k \in 1..(2 * Len(b)) |->
              IF k % 2 = 1 THEN HexDigits[(b[(k + 1) \div 2] \div 16) + 1]
              ELSE HexDigits[(b[k \div 2] % 16) + 1]] : b \in {bytes}})

bytes_to_hex(bytes) == <<"0", "x">> \o HexOfBytes(bytes)

\* eip712::hex_to_bytes: [ok, bytes]; ~ok is the exception of std::stoi
eip712_hex_to_bytes(hex) ==
    LET clean_hex == IF Substr(hex, 0, 2) \in {<<"0", "x">>, <<"0", "X">>}
                     THEN SubstrFrom(hex, 2) ELSE hex
    IN  ParsePairs(clean_hex)

-----------------------------------------------------------------------------
(* Keccak-256 and libsecp256k1.  Neither is computed here.  Each stands as a *)
(* fixed function from its arguments to bytes of the right length: the       *)
(* digest a function of the message, the signature a function of             *)
(* (seckey, msg32, ndata) as RFC 6979 makes it, validity of a secret key what *)
(* the library documents, 0 < key < curve order.                             *)

\* the sum of weight(i) * b[i] over lo..hi, the range halved at each level
RECURSIVE SumRange(_, _, _, _)
SumRange(b, weighted, lo, hi) ==
    IF lo > hi THEN 0
    ELSE IF lo = hi THEN (IF weighted THEN lo * b[lo] ELSE b[lo])
    ELSE SumRange(b, weighted, lo, (lo + hi) \div 2)
            + SumRange(b, weighted, ((lo + hi) \div 2) + 1, hi)

SumBytes(b) == Only({SumRange(v, FALSE, 1, Len(v)) : v \in {b}})

WeightedSum(b) == Only({SumRange(v, TRUE, 1, Len(v)) % 65536 : v \in {b}})

keccak256(data) ==
    Only({[i \in 1..32 |-> (a * i + w + n + i * i) % 256] :
             a \in {SumBytes(data)}, w \in {WeightedSum(data)}, n \in {Len(data)}})

\* the order of the secp256k1 group, big-endian
CurveOrder ==
    <<255, 255, 255, 255, 255, 255, 255, 255, 255, 255, 255, 255, 255, 255, 255, 254,
      186, 174, 220, 230, 175, 72, 160, 59, 191, 210, 94, 140, 208, 54, 65, 65>>

\* a < b for big-endian byte strings of one length
BytesLess(a, b) ==
    \E i \in 1..Len(a) : a[i] < b[i] /\ \A j \in 1..(i - 1) : a[j] = b[j]

secp256k1_ec_seckey_verify(seckey) ==
    /\ seckey # [i \in 1..32 |-> 0]
    /\ BytesLess(seckey, CurveOrder)

\* the uncompressed public key: 0x04 and 64 bytes
secp256k1_ec_pubkey_serialize(seckey) ==
    [i \in 1..65 |-> IF i = 1 THEN 4 ELSE (3 * seckey[((i - 2) % 32) + 1] + i) % 256]

\* [r, s, recid]; r may start with a zero byte, s is in the lower half
secp256k1_ecdsa_sign_recoverable(seckey, msg32, ndata) ==
    Only({[r |-> [i \in 1..32 |-> IF i = 1 THEN (mix % 4) * 64
                                   ELSE (mix * i + key[i] + msg[i]) % 256],
           s |-> [i \in 1..32 |-> IF i = 1 THEN (mix \div 4) % 128
                                   ELSE (mix + i * msg[i] + 2 * key[i]) % 256],
           recid |-> (mix \div 2) % 2] :
             mix \in {SumBytes(seckey) + 3 * SumBytes(msg32) + msg32[32] + 7 * ndata},
             key \in {seckey}, msg \in {msg32}})

-----------------------------------------------------------------------------
(* class Signer, src/unnamed/part_001 *)

\* Signer::compute_address: "0x" and the last 20 bytes of the digest of the
\* public key without its format byte
compute_address(public_key) ==
    LET hash == keccak256(SubstrFrom(public_key, 1))
    IN  bytes_to_hex(SubstrFrom(hash, 12))

NoKey == [i \in 1..32 |-> 0]

\* Signer::Signer, after the context is created: what it throws ("" when it
\* returns), whether it destroyed the context on the way out, whether it wrote
\* private_key_, and the fields it set.  An exception of hex_to_bytes leaves the
\* constructor before any secp256k1_context_destroy.  (secp256k1_ec_pubkey_create
\* and compute_address cannot fail once the key is verified.)
Signer_ctor(private_key_hex, chain_id) ==
    LET key_bytes == eip712_hex_to_bytes(private_key_hex)
        blank == [error |-> "", ctx_destroyed |-> FALSE, key_written |-> FALSE,
                  private_key_ |-> NoKey, address_ |-> <<>>, chain_id_ |-> chain_id]
    IN  IF ~key_bytes.ok
        THEN [blank EXCEPT !.error = "invalid_argument"]
        ELSE IF Len(key_bytes.bytes) # 32
        THEN [blank EXCEPT !.error = "Invalid private key length", !.ctx_destroyed = TRUE]
        ELSE IF ~secp256k1_ec_seckey_verify(key_bytes.bytes)
        THEN [blank EXCEPT !.error = "Invalid private key", !.ctx_destroyed = TRUE,
                           !.key_written = TRUE, !.private_key_ = key_bytes.bytes]
        ELSE [blank EXCEPT !.key_written = TRUE, !.private_key_ = key_bytes.bytes,
                           !.address_ = compute_address(
                                            secp256k1_ec_pubkey_serialize(key_bytes.bytes))]

\* variant with a defect: fresh nonce data at every call
sign_ndata_fresh == BagCardinality(sig_log) + 1

\* the extra nonce data Signer hands to secp256k1_ecdsa_sign_recoverable: nullptr
sign_ndata == 0

\* Signer::sign: "0x" and the hex of r, s and recid + 27
Signer_sign(private_key_, message_hash) ==
    Only({bytes_to_hex(sig.r \o sig.s \o <<(sig.recid + 27) % 256>>) :
             sig \in {secp256k1_ecdsa_sign_recoverable(private_key_, message_hash,
                                                       sign_ndata)}})

\* Signer::sign_hash: r, s and v = recid; it throws unless the hash has 32 bytes
Signer_sign_hash(private_key_, hash) ==
    IF Len(hash) # 32
    THEN [error |-> "Hash must be 32 bytes", r |-> <<>>, s |-> <<>>, v |-> 0]
    ELSE LET sig == secp256k1_ecdsa_sign_recoverable(private_key_, hash, sign_ndata)
         IN  [error |-> "", r |-> sig.r, s |-> sig.s, v |-> sig.recid]

\* eip712::signing_hash, from the two hashes it computes of its arguments:
\* keccak256(0x19 0x01 || hash_domain(domain) || hash_struct(primary_type, message, types))
signing_hash(domain_sep, struct_h) == keccak256(<<25, 1>> \o domain_sep \o struct_h)

\* Signer::sign_typed_data: sign(signing_hash(...))
Signer_sign_typed_data(private_key_, domain_sep, struct_h) ==
    Signer_sign(private_key_, signing_hash(domain_sep, struct_h))

-----------------------------------------------------------------------------
(* struct Transaction, src/src/order_builder.cpp *)

NoTxOutcome ==
    [status |-> "none", unsigned_tx |-> <<>>, recid |-> 0, r |-> <<>>, s |-> <<>>,
     signed_tx |-> <<>>, ret |-> <<>>, ctx |-> "none"]

\* uint64_t v_adjusted = sig.v + chain_id * 2 + 35;
v_adjusted(v, chain_id) == U64MulAdd(chain_id, 2, 35 + v)

\* variant with a defect: the chain id after the two empty strings
tx_items_chain_last(tx, gas_price_bytes, to_bytes, value_bytes, data_bytes) ==
    <<rlp_encode_integer(tx.nonce),
      rlp_encode_string(gas_price_bytes),
      rlp_encode_integer(tx.gas_limit),
      rlp_encode_string(to_bytes),
      rlp_encode_string(value_bytes),
      rlp_encode_string(data_bytes),
      rlp_encode_string(<<>>),
      rlp_encode_string(<<>>),
      rlp_encode_integer(tx.chain_id)>>

\* std::vector<std::vector<uint8_t>> tx_items = {...}: the nine items hashed
tx_items(tx, gas_price_bytes, to_bytes, value_bytes, data_bytes) ==
    <<rlp_encode_integer(tx.nonce),
      rlp_encode_string(gas_price_bytes),
      rlp_encode_integer(tx.gas_limit),
      rlp_encode_string(to_bytes),
      rlp_encode_string(value_bytes),
      rlp_encode_string(data_bytes),
      rlp_encode_integer(tx.chain_id),
      rlp_encode_string(<<>>),
      rlp_encode_string(<<>>)>>

\* std::vector<std::vector<uint8_t>> signed_items = {...}: the nine items sent
signed_items(tx, gas_price_bytes, to_bytes, value_bytes, data_bytes, sig) ==
    <<rlp_encode_integer(tx.nonce),
      rlp_encode_string(gas_price_bytes),
      rlp_encode_integer(tx.gas_limit),
      rlp_encode_string(to_bytes),
      rlp_encode_string(value_bytes),
      rlp_encode_string(data_bytes),
      rlp_encode_integer(v_adjusted(sig.v, tx.chain_id)),
      rlp_encode_string(sig.r),
      rlp_encode_string(sig.s)>>

\* Transaction::sign.  status "signed": ret is the string returned; any other
\* status is the exception thrown (of std::stoul, or of the Signer constructor,
\* which runs after the unsigned payload is built and hashed).  ctx is what
\* became of the context of the local Signer: destroyed by its destructor or by
\* the constructor's error path, or left live by an exception of hex_to_bytes.
Transaction_sign(tx, private_key) ==
    LET gas_price_bytes == eth_hex_to_bytes(tx.gas_price, FALSE)
        to_bytes == eth_hex_to_bytes(tx.to, FALSE)
        value_bytes == eth_hex_to_bytes(tx.value, TRUE)
        data_bytes == eth_hex_to_bytes(tx.data, FALSE)
    IN  IF ~(gas_price_bytes.ok /\ to_bytes.ok /\ value_bytes.ok /\ data_bytes.ok)
        THEN [NoTxOutcome EXCEPT !.status = "invalid_argument"]
        ELSE
        LET unsigned_tx == rlp_encode_list(tx_items(tx, gas_price_bytes.bytes,
                               to_bytes.bytes, value_bytes.bytes, data_bytes.bytes))
            hash_vec == keccak256(unsigned_tx)
            signer == Signer_ctor(private_key, tx.chain_id)
        IN  IF signer.error # ""
            THEN [NoTxOutcome EXCEPT !.status = signer.error, !.unsigned_tx = unsigned_tx,
                                     !.ctx = IF signer.ctx_destroyed THEN "destroyed"
                                             ELSE "live"]
            ELSE
            LET sig == Signer_sign_hash(signer.private_key_, hash_vec)
                signed_tx == rlp_encode_list(signed_items(tx, gas_price_bytes.bytes,
                                 to_bytes.bytes, value_bytes.bytes, data_bytes.bytes, sig))
            IN  [status |-> "signed", unsigned_tx |-> unsigned_tx, recid |-> sig.v,
                 r |-> sig.r, s |-> sig.s, signed_tx |-> signed_tx,
                 ret |-> bytes_to_hex(signed_tx), ctx |-> "destroyed"]

\* pad_address: the address without "0x", left-padded with '0' to 64 characters
pad_address(addr) ==
    LET a == IF Substr(addr, 0, 2) = <<"0", "x">> THEN SubstrFrom(addr, 2) ELSE addr
    IN  [i \in 1..(64 - Len(a)) |-> "0"] \o a

\* pad_uint256: the same for a hex number, "0" when it is empty
pad_uint256(hex_value) ==
    LET v0 == IF Substr(hex_value, 0, 2) = <<"0", "x">> THEN SubstrFrom(hex_value, 2)
              ELSE hex_value
        v == IF v0 = <<>> THEN <<"0">> ELSE v0
    IN  [i \in 1..(64 - Len(v)) |-> "0"] \o v

\* abi::encode_approve: approve(address,uint256) = 0x095ea7b3
encode_approve(spender, amount_hex) ==
    <<"0","x","0","9","5","e","a","7","b","3">> \o pad_address(spender) \o pad_uint256(amount_hex)

-----------------------------------------------------------------------------
(* eip712::encode_uint256, src/unnamed/part_000 *)

DecDigits == <<"0","1","2","3","4","5","6","7","8","9">>

\* std::stoull on a string of decimal digits: [ok, val]; ~ok is the exception
\* (std::invalid_argument for the empty string, std::out_of_range above 2^64 - 1)
stoull_digit(st, c) ==
    IF ~st.ok THEN st
    ELSE Only({IF t.carry > 0 THEN [ok |-> FALSE, val |-> U64Zero]
               ELSE [ok |-> TRUE, val |-> t.val] : t \in {MulAdd(st.val, 10, HexVal(c))}})

\* the digits lo..hi of s in their order; the range is halved rather than
\* walked, which keeps the evaluation shallow
RECURSIVE stoull_range(_, _, _, _)
stoull_range(s, st, lo, hi) ==
    IF lo > hi THEN st
    ELSE IF lo = hi THEN stoull_digit(st, s[lo])
    ELSE Only({stoull_range(s, left, ((lo + hi) \div 2) + 1, hi) :
                  left \in {stoull_range(s, st, lo, (lo + hi) \div 2)}})

stoull(s) ==
    IF s = <<>> THEN [ok |-> FALSE, val |-> U64Zero]
    ELSE Only({stoull_range(str, [ok |-> TRUE, val |-> U64Zero], 1, Len(str)) : str \in {s}})

\* encode_uint256(uint64_t): result[31 - i] = (value >> (i * 8)) & 0xFF, i < 8
encode_uint256_u64(value) == [k \in 1..32 |-> IF k <= 24 THEN 0 ELSE value[k - 24]]

\* variant with a defect: a quotient digit is kept only from current > 256 on
divide_step_gt(st, c) ==
    LET current == st.remainder * 10 + HexVal(c)
    IN  [remainder |-> current % 256,
         quotient |-> IF st.quotient # <<>> \/ current > 256
                      THEN Append(st.quotient, DecDigits[(current \div 256) + 1])
                      ELSE st.quotient]

\* the body of for (char c : decimal_str): one digit of the division by 256
divide_step(st, c) ==
    LET current == st.remainder * 10 + HexVal(c)
    IN  [remainder |-> current % 256,
         quotient |-> IF st.quotient # <<>> \/ current >= 256
                      THEN Append(st.quotient, DecDigits[(current \div 256) + 1])
                      ELSE st.quotient]

\* for (char c : decimal_str): the remainder of the decimal string by 256, and
\* the quotient without leading zeros
RECURSIVE divide_range(_, _, _, _)
divide_range(decimal_str, st, lo, hi) ==
    IF lo > hi THEN st
    ELSE IF lo = hi THEN Only({divide_step(v, decimal_str[lo]) : v \in {st}})
    ELSE Only({divide_range(decimal_str, left, ((lo + hi) \div 2) + 1, hi) :
                  left \in {divide_range(decimal_str, st, lo, (lo + hi) \div 2)}})

divide_by_256(decimal_str) ==
    Only({divide_range(str, [remainder |-> 0, quotient |-> <<>>], 1, Len(str)) :
             str \in {decimal_str}})

\* the body of while (decimal_str != "0" && !decimal_str.empty()); once the
\* condition is false nothing changes
decimal_loop_step(st) ==
    IF st.decimal_str # <<"0">> /\ st.decimal_str # <<>>
    THEN LET d == divide_by_256(st.decimal_str)
         IN  [decimal_str |-> IF d.quotient = <<>> THEN <<"0">> ELSE d.quotient,
              bytes |-> <<d.remainder>> \o st.bytes]
    ELSE st

\* the while loop: a quotient is shorter than its dividend or "0", so the loop
\* has ended after one turn per character, and one more
RECURSIVE decimal_loop(_, _)
decimal_loop(st, turns) ==
    IF turns = 0 THEN st
    ELSE IF turns = 1 THEN Only({decimal_loop_step(v) : v \in {st}})
    ELSE Only({decimal_loop(left, turns - (turns \div 2)) :
                  left \in {decimal_loop(st, turns \div 2)}})

decimal_to_bytes(value) ==
    decimal_loop([decimal_str |-> value, bytes |-> <<>>], Len(value) + 1)

\* encode_uint256(const std::string&): [status, ret]; status "error" is the
\* exception "Number too large for uint256"
encode_uint256_str(value) ==
    LET num == stoull(value)
    IN  IF num.ok
        THEN [status |-> "ok", ret |-> encode_uint256_u64(num.val)]
        ELSE LET bytes == decimal_to_bytes(value).bytes
             IN  IF Len(bytes) > 32
                 THEN [status |-> "error", ret |-> <<>>]
                 ELSE [status |-> "ok",
                       ret |-> [k \in 1..32 |-> IF k <= 32 - Len(bytes) THEN 0
                                                ELSE bytes[k - (32 - Len(bytes))]]]

-----------------------------------------------------------------------------
(* namespace eip712, src/unnamed/part_000.  A json value is a record with its *)
(* kind: a string (characters), a number (uint64_t), an object (member name   *)
(* -> value) or null.  `types` maps a type name to its array of fields, each  *)
(* [name, type].  An outcome has status "ok", "error" (an exception, named in *)
(* error) or "abort" (a failed assertion).                                    *)

\* the printable characters, from the space (32) to the tilde (126); the
\* double quote, the backslash and the back quote are named, no string here has
\* them
Ascii == <<" ","!","dquote","#","$","%","&","'","(",")","*","+",",","-",".","/",
           "0","1","2","3","4","5","6","7","8","9",":",";","<","=",">","?",
           "@","A","B","C","D","E","F","G","H","I","J","K","L","M","N","O",
           "P","Q","R","S","T","U","V","W","X","Y","Z","[","bslash","]","^","_",
           "bquote","a","b","c","d","e","f","g","h","i","j","k","l","m","n","o",
           "p","q","r","s","t","u","v","w","x","y","z","{","|","}","~">>

CharCode(c) == 31 + (CHOOSE k \in 1..Len(Ascii) : Ascii[k] = c)

\* std::vector<uint8_t> data(str.begin(), str.end())
StringBytes(str) == [k \in 1..Len(str) |-> CharCode(str[k])]

JsonString(s) == [kind |-> "string", str |-> s]
JsonNumber(n) == [kind |-> "number", num |-> n]
JsonObject(o) == [kind |-> "object", obj |-> o]
JsonNull == [kind |-> "null"]

EipOk(ret) == [status |-> "ok", error |-> "", ret |-> ret]
EipError(error) == [status |-> "error", error |-> error, ret |-> <<>>]
EipAbort == [status |-> "abort", error |-> "assertion failed", ret |-> <<>>]

\* eip712::encode_address: 12 zero bytes and the 20 bytes of the address
encode_address(address) ==
    Only({IF ~bytes.ok THEN EipError("invalid_argument")
          ELSE IF Len(bytes.bytes) # 20 THEN EipError("Invalid address length")
          ELSE EipOk([k \in 1..12 |-> 0] \o bytes.bytes) :
             bytes \in {eip712_hex_to_bytes(address)}})

\* eip712::encode_string
encode_string(str) == keccak256(StringBytes(str))

\* variant with a defect: the fields in reverse order
RECURSIVE type_fields_str_rev(_, _)
type_fields_str_rev(fields, i) ==
    IF i > Len(fields) THEN <<>>
    ELSE type_fields_str_rev(fields, i + 1)
            \o (IF i < Len(fields) THEN <<",">> ELSE <<>>)
            \o fields[i].type \o <<" ">> \o fields[i].name

\* the loop of type_hash: the fields from the i-th on, "type name" each, a comma
\* before every one but the first
RECURSIVE type_fields_str(_, _)
type_fields_str(fields, i) ==
    IF i > Len(fields) THEN <<>>
    ELSE (IF i > 1 THEN <<",">> ELSE <<>>)
            \o fields[i].type \o <<" ">> \o fields[i].name
            \o type_fields_str(fields, i + 1)

\* the type_str of type_hash
type_str(primary_type, types) ==
    primary_type \o <<"(">> \o type_fields_str(types[primary_type], 1) \o <<")">>

\* eip712::type_hash
type_hash(primary_type, types) ==
    IF primary_type \notin DOMAIN types
    THEN EipError("Type not found")
    ELSE EipOk(keccak256(StringBytes(type_str(primary_type, types))))

\* type.find(prefix) == 0
StartsWith(type, prefix) == Substr(type, 0, Len(prefix)) = prefix

\* the uint and int branches of encode_value
encode_value_uint(value) ==
    IF value.kind = "number" THEN EipOk(encode_uint256_u64(value.num))
    ELSE IF value.kind # "string" THEN EipError("type_error")
    ELSE LET encoded == encode_uint256_str(value.str)
         IN  IF encoded.status = "ok" THEN EipOk(encoded.ret)
             ELSE EipError("Number too large for uint256")

\* data[field_name] on a const json: a type error when data is no object, the
\* member when it is there.  For a member that is not there the library's
\* operator[] const has no defined result: `ub` says what this run makes of
\* it, a failed assertion or some value read from where no member is.
json_member(data, field_name, ub) ==
    IF data.kind # "object" THEN [status |-> "error", value |-> JsonNull]
    ELSE IF field_name \in DOMAIN data.obj
    THEN [status |-> "ok", value |-> data.obj[field_name]]
    ELSE IF ub.abort THEN [status |-> "abort", value |-> JsonNull]
    ELSE [status |-> "ok", value |-> ub.value]

\* encode_value, the loop of encode_struct, encode_struct and hash_struct call
\* one another; they are the four branches of one recursive operator, `fn`
\* naming the function entered.  For the loop `type` is the struct type, `i`
\* the field it is at and `value` the struct.
RECURSIVE eip712_encode(_, _, _, _, _, _)
eip712_encode(fn, type, i, value, types, ub) ==
    CASE fn = "encode_value" ->
            IF type = <<"s","t","r","i","n","g">>
            THEN IF value.kind = "string" THEN EipOk(encode_string(value.str))
                 ELSE EipError("type_error")
            ELSE IF type = <<"a","d","d","r","e","s","s">>
            THEN IF value.kind = "string" THEN encode_address(value.str)
                 ELSE EipError("type_error")
            ELSE IF StartsWith(type, <<"u","i","n","t">>) THEN encode_value_uint(value)
            ELSE IF StartsWith(type, <<"i","n","t">>) THEN encode_value_uint(value)
            ELSE IF type = <<"b","y","t","e","s">>
            THEN IF value.kind # "string" THEN EipError("type_error")
                 ELSE Only({IF bytes.ok THEN EipOk(keccak256(bytes.bytes))
                            ELSE EipError("invalid_argument") :
                               bytes \in {eip712_hex_to_bytes(value.str)}})
            ELSE IF type \in DOMAIN types
            THEN eip712_encode("hash_struct", type, 0, value, types, ub)
            ELSE EipError("Unsupported type")
      [] fn = "encode_fields" ->
            IF i > Len(types[type]) THEN EipOk(<<>>)
            ELSE Only({IF member.status = "error" THEN EipError("type_error")
                       ELSE IF member.status = "abort" THEN EipAbort
                       ELSE Only({IF encoded.status # "ok" THEN encoded
                                  ELSE Only({IF rest.status # "ok" THEN rest
                                             ELSE EipOk(encoded.ret \o rest.ret) :
                                                rest \in {eip712_encode("encode_fields", type,
                                                             i + 1, value, types, ub)}}) :
                                     encoded \in {eip712_encode("encode_value",
                                                     types[type][i].type, 0, member.value,
                                                     types, ub)}}) :
                          member \in {json_member(value, types[type][i].name, ub)}})
      [] fn = "encode_struct" ->
            Only({IF th.status # "ok" THEN th
                  ELSE Only({IF values.status # "ok" THEN values
                             ELSE EipOk(th.ret \o values.ret) :
                                values \in {eip712_encode("encode_fields", type, 1, value,
                                                           types, ub)}}) :
                     th \in {type_hash(type, types)}})
      [] OTHER ->
            Only({IF encoded.status # "ok" THEN encoded ELSE EipOk(keccak256(encoded.ret)) :
                     encoded \in {eip712_encode("encode_struct", type, 0, value, types, ub)}})

\* eip712::encode_value
encode_value(type, value, types, ub) ==
    Only({eip712_encode("encode_value", type, 0, v, t, ub) : v \in {value}, t \in {types}})

\* eip712::encode_struct: the type hash, then the fields as the schema lists them
encode_struct(primary_type, data, types, ub) ==
    Only({eip712_encode("encode_struct", primary_type, 0, v, t, ub) :
             v \in {data}, t \in {types}})

\* eip712::hash_struct
hash_struct(primary_type, data, types, ub) ==
    Only({eip712_encode("hash_struct", primary_type, 0, v, t, ub) :
             v \in {data}, t \in {types}})

\* variant with a defect: version is tested before name
domain_fields_swapped(domain) ==
    (IF "version" \in DOMAIN domain THEN <<<<"s","t","r","i","n","g"," ","v","e","r","s","i","o","n">>>> ELSE <<>>)
        \o (IF "name" \in DOMAIN domain THEN <<<<"s","t","r","i","n","g"," ","n","a","m","e">>>> ELSE <<>>)
        \o (IF "chainId" \in DOMAIN domain THEN <<<<"u","i","n","t","2","5","6"," ","c","h","a","i","n","I","d">>>> ELSE <<>>)
        \o (IF "verifyingContract" \in DOMAIN domain
            THEN <<<<"a","d","d","r","e","s","s"," ","v","e","r","i","f","y","i","n","g","C","o","n","t","r","a","c","t">>>> ELSE <<>>)
        \o (IF "salt" \in DOMAIN domain THEN <<<<"b","y","t","e","s","3","2"," ","s","a","l","t">>>> ELSE <<>>)

\* the fields vector of encode_domain: the members present, in the order of the
\* five tests
domain_fields(domain) ==
    (IF "name" \in DOMAIN domain THEN <<<<"s","t","r","i","n","g"," ","n","a","m","e">>>> ELSE <<>>)
        \o (IF "version" \in DOMAIN domain THEN <<<<"s","t","r","i","n","g"," ","v","e","r","s","i","o","n">>>> ELSE <<>>)
        \o (IF "chainId" \in DOMAIN domain THEN <<<<"u","i","n","t","2","5","6"," ","c","h","a","i","n","I","d">>>> ELSE <<>>)
        \o (IF "verifyingContract" \in DOMAIN domain
            THEN <<<<"a","d","d","r","e","s","s"," ","v","e","r","i","f","y","i","n","g","C","o","n","t","r","a","c","t">>>> ELSE <<>>)
        \o (IF "salt" \in DOMAIN domain THEN <<<<"b","y","t","e","s","3","2"," ","s","a","l","t">>>> ELSE <<>>)

\* the loop that joins them with commas
RECURSIVE domain_fields_str(_, _)
domain_fields_str(fields, i) ==
    IF i > Len(fields) THEN <<>>
    ELSE (IF i > 1 THEN <<",">> ELSE <<>>) \o fields[i] \o domain_fields_str(fields, i + 1)

domain_type(domain) ==
    <<"E","I","P","7","1","2","D","o","m","a","i","n","(">> \o domain_fields_str(domain_fields(domain), 1) \o <<")">>

\* the value encoders of encode_domain: encode_string, encode_uint256 of
\* get<uint64_t>(), encode_address, and the salt as it is when it has 32 bytes
domain_string(v) ==
    IF v.kind = "string" THEN EipOk(encode_string(v.str)) ELSE EipError("type_error")

domain_uint(v) ==
    IF v.kind = "number" THEN EipOk(encode_uint256_u64(v.num)) ELSE EipError("type_error")

domain_address(v) ==
    IF v.kind = "string" THEN encode_address(v.str) ELSE EipError("type_error")

domain_salt(v) ==
    IF v.kind # "string" THEN EipError("type_error")
    ELSE LET salt == eip712_hex_to_bytes(v.str)
         IN  IF ~salt.ok THEN EipError("invalid_argument")
             ELSE IF Len(salt.bytes) # 32 THEN EipError("Domain salt must be 32 bytes")
             ELSE EipOk(salt.bytes)

\* one if (domain.contains(key)) { ... } of encode_domain: result grows by the
\* encoded value, or the exception leaves the function
domain_value(acc, domain, key, kind) ==
    Only({IF a.status # "ok" \/ key \notin DOMAIN domain THEN a
          ELSE Only({IF encoded.status # "ok" THEN encoded
                     ELSE EipOk(a.ret \o encoded.ret) :
                        encoded \in {CASE kind = "string" -> domain_string(domain[key])
                                       [] kind = "uint" -> domain_uint(domain[key])
                                       [] kind = "address" -> domain_address(domain[key])
                                       [] OTHER -> domain_salt(domain[key])}}) :
             a \in {acc}})

\* eip712::encode_domain
encode_domain(domain) ==
    LET th == EipOk(keccak256(StringBytes(domain_type(domain))))
        r1 == domain_value(th, domain, "name", "string")
        r2 == domain_value(r1, domain, "version", "string")
        r3 == domain_value(r2, domain, "chainId", "uint")
        r4 == domain_value(r3, domain, "verifyingContract", "address")
    IN  domain_value(r4, domain, "salt", "salt")

\* eip712::hash_domain
hash_domain(domain) ==
    Only({IF encoded.status # "ok" THEN encoded ELSE EipOk(keccak256(encoded.ret)) :
             encoded \in {encode_domain(domain)}})

-----------------------------------------------------------------------------
(* keccak::hash256, src/include/clob/keccak.hpp.  The 25 lanes of the state   *)
(* are kept as their 200 bytes, low byte first, as the absorb and squeeze     *)
(* loops read and write them.  The 24 rounds of keccakf are not computed: a   *)
(* fixed mixing of the 200 bytes stands for them.  An outcome carries, beside *)
(* the digest, every block that was XORed into the state and the number of    *)
(* calls of keccakf.                                                          *)

RATE == 136

\* a ^ b and a | b on bytes
XorByte(a, b) ==
    LET Bit(x, k) == (x \div (2 ^ k)) % 2
    IN  ((Bit(a, 0) + Bit(b, 0)) % 2) + 2 * ((Bit(a, 1) + Bit(b, 1)) % 2)
          + 4 * ((Bit(a, 2) + Bit(b, 2)) % 2) + 8 * ((Bit(a, 3) + Bit(b, 3)) % 2)
          + 16 * ((Bit(a, 4) + Bit(b, 4)) % 2) + 32 * ((Bit(a, 5) + Bit(b, 5)) % 2)
          + 64 * ((Bit(a, 6) + Bit(b, 6)) % 2) + 128 * ((Bit(a, 7) + Bit(b, 7)) % 2)

OrByte(a, b) == a + b - ((a + b - XorByte(a, b)) \div 2)

\* uint64_t st[25] = {0}
KeccakZeroState == [i \in 1..200 |-> 0]

\* detail::keccakf: a stand-in
keccakf(st) ==
    [i \in 1..200 |->
        (st[i] + 7 * st[(i % 200) + 1] + 13 * st[((i + 135) % 200) + 1] + i) % 256]

\* for (j < RATE / 8) st[j] ^= lane of temp[j * 8 .. j * 8 + 7]
keccak_xor_block(st, temp) ==
    [i \in 1..200 |-> IF i <= RATE THEN XorByte(st[i], temp[i]) ELSE st[i]]

\* variant with a defect: the last byte of the block is set to 0x80, not ORed
keccak_pad_assign(data, pt) ==
    [j \in 1..RATE |->
        IF j = RATE THEN 128
        ELSE IF j <= pt THEN data[Len(data) - pt + j]
        ELSE IF j = pt + 1 THEN 1
        ELSE 0]

\* temp after the absorb loop and the padding: the pt bytes left over, then
\* memset(temp + pt, 0, RATE - pt); temp[pt] = 0x01; temp[RATE - 1] |= 0x80
keccak_pad(data, pt) ==
    LET filled == [j \in 1..RATE |-> IF j <= pt THEN data[Len(data) - pt + j]
                                     ELSE IF j = pt + 1 THEN 1
                                     ELSE 0]
    IN  [filled EXCEPT ![RATE] = OrByte(filled[RATE], 128)]

\* the absorb loop from byte i on, with pt = 0: every time the RATE-th byte of
\* a block has been copied to temp the block is XORed in and keccakf runs
RECURSIVE keccak_absorb(_, _, _)
keccak_absorb(acc, data, i) ==
    IF i + RATE > Len(data) THEN acc
    ELSE LET temp == Substr(data, i, RATE)
         IN  keccak_absorb([st |-> keccakf(keccak_xor_block(acc.st, temp)),
                            blocks |-> Append(acc.blocks, temp),
                            permutations |-> acc.permutations + 1],
                           data, i + RATE)

\* keccak::hash256
hash256(data) ==
    LET absorbed == keccak_absorb([st |-> KeccakZeroState, blocks |-> <<>>,
                                   permutations |-> 0], data, 0)
        pt == Len(data) % RATE
        temp == keccak_pad(data, pt)
        st == keccakf(keccak_xor_block(absorbed.st, temp))
    IN  [st |-> st,
         blocks |-> Append(absorbed.blocks, temp),
         permutations |-> absorbed.permutations + 1,
         hash |-> Substr(st, 0, 32)]

-----------------------------------------------------------------------------
(* The HMAC of create_l2_headers, src/src/order_builder.cpp.  The base64      *)
(* filter of OpenSSL is modelled by what it does on well formed input (no     *)
(* line breaks, '=' only at the end); HMAC-SHA256 is a stand-in, 32 bytes     *)
(* that depend on every byte of the key and of the message and on their       *)
(* lengths.                                                                   *)

B64Chars == <<"A","B","C","D","E","F","G","H","I","J","K","L","M","N","O","P","Q","R","S","T","U","V","W","X","Y","Z","a","b","c","d","e","f","g","h","i","j","k","l","m","n","o","p","q","r","s","t","u","v","w","x","y","z","0","1","2","3","4","5","6","7","8","9","+","/">>

\* the six bits a character stands for, 0 for the padding
B64Val(c) == IF c = "=" THEN 0 ELSE (CHOOSE k \in 1..64 : B64Chars[k] = c) - 1

\* for (char& c : s) { if (c == a1) c = b1; if (c == a2) c = b2; }
replace_chars(s, a1, b1, a2, b2) ==
    [k \in 1..Len(s) |-> IF s[k] = a1 THEN b1 ELSE IF s[k] = a2 THEN b2 ELSE s[k]]

\* while (secret_copy.length() % 4 != 0) secret_copy += '='
pad_to_four(s) == s \o [k \in 1..((4 - (Len(s) % 4)) % 4) |-> "="]

\* what the decoding filter yields in all: [ok, bytes]; ~ok when there is
\* nothing to decode or the input is no base64
b64_decode(s) ==
    LET pads == Cardinality({k \in 1..Len(s) : \A j \in k..Len(s) : s[j] = "="})
        n == 3 * (Len(s) \div 4) - pads
        V(g, q) == B64Val(s[4 * g + q + 1])
    IN  IF \/ Len(s) = 0 \/ Len(s) % 4 # 0 \/ pads > 2
           \/ \E k \in 1..(Len(s) - pads) : \A j \in 1..64 : B64Chars[j] # s[k]
        THEN [ok |-> FALSE, bytes |-> <<>>]
        ELSE [ok |-> TRUE,
              bytes |-> [k \in 1..n |->
                  LET g == (k - 1) \div 3
                      r == (k - 1) % 3
                  IN  CASE r = 0 -> V(g, 0) * 4 + (V(g, 1) \div 16)
                        [] r = 1 -> (V(g, 1) % 16) * 16 + (V(g, 2) \div 4)
                        [] OTHER -> (V(g, 2) % 4) * 64 + V(g, 3)]]

\* BIO_read(bio_decode, decoded_secret.data(), 256) and resize(decoded_len):
\* at most 256 bytes of the decoded secret; decoded_len <= 0 when there are none
MaxDecodedSecret == 256

bio_read_secret(secret_copy) ==
    Only({IF ~decoded.ok \/ decoded.bytes = <<>> THEN [decoded_len |-> 0, bytes |-> <<>>]
          ELSE Only({[decoded_len |-> len, bytes |-> Substr(decoded.bytes, 0, len)] :
                        len \in {IF Len(decoded.bytes) > MaxDecodedSecret
                                 THEN MaxDecodedSecret ELSE Len(decoded.bytes)}}) :
             decoded \in {b64_decode(secret_copy)}})

\* the encoding filter with BIO_FLAGS_BASE64_NO_NL: four characters for every
\* three bytes, '=' where the last group has none
b64_encode(bytes) ==
    LET n == Len(bytes)
        B(k) == IF k <= n THEN bytes[k] ELSE 0
    IN  [p \in 1..(4 * ((n + 2) \div 3)) |->
            LET g == (p - 1) \div 4
                q == (p - 1) % 4
                have == IF n - 3 * g > 3 THEN 3 ELSE n - 3 * g
            IN  CASE q = 0 -> B64Chars[(B(3 * g + 1) \div 4) + 1]
                  [] q = 1 -> B64Chars[(B(3 * g + 1) % 4) * 16 + (B(3 * g + 2) \div 16) + 1]
                  [] q = 2 -> IF have >= 2
                              THEN B64Chars[(B(3 * g + 2) % 16) * 4 + (B(3 * g + 3) \div 64) + 1]
                              ELSE "="
                  [] OTHER -> IF have = 3 THEN B64Chars[(B(3 * g + 3) % 64) + 1] ELSE "="]

\* HMAC(EVP_sha256(), key, message): a stand-in
hmac_sha256(key, message) ==
    Only({[i \in 1..32 |-> (a * i + w + n + i * i) % 256] :
             a \in {SumBytes(key) + 5 * SumBytes(message)},
             w \in {WeightedSum(key) + 3 * WeightedSum(message)},
             n \in {7 * Len(key) + Len(message)}})

\* ::tolower on a character
tolower(c) ==
    IF \E k \in 34..59 : Ascii[k] = c THEN Ascii[CharCode(c) + 1] ELSE c

\* Convert to URL-safe base64 (+ -> -, / -> _), the '=' kept
l2_url_safe(signature) == replace_chars(signature, "+", "-", "/", "_")

\* create_l2_headers after assert_level_2_auth: the message, the decoded
\* secret, the signature; status "error" is "Failed to decode API secret"
l2_signature(api_secret, timestamp, method, request_path, body) ==
    Only({IF decoded.decoded_len <= 0
          THEN [status |-> "error", error |-> "Failed to decode API secret",
                message |-> message, decoded_secret |-> <<>>, signature |-> <<>>]
          ELSE [status |-> "ok", error |-> "", message |-> message,
                decoded_secret |-> decoded.bytes,
                signature |-> l2_url_safe(b64_encode(
                                  hmac_sha256(decoded.bytes, StringBytes(message))))] :
             message \in {timestamp \o method \o request_path \o body},
             decoded \in {bio_read_secret(
                              pad_to_four(replace_chars(api_secret, "-", "+", "_", "/")))}})

-----------------------------------------------------------------------------
(* ClobClient, src/src/order_builder.cpp: the fields that authentication      *)
(* reads and writes.  A cache is the set of token ids it holds.               *)

L0 == 0
L1 == 1
L2 == 2

\* an empty std::shared_ptr<Signer>, and one that points to a Signer
NullSigner == [null |-> TRUE, address_ |-> <<>>, chain_id_ |-> U64Zero, private_key_ |-> NoKey]

SignerPtr(s) ==
    [null |-> FALSE, address_ |-> s.address_, chain_id_ |-> s.chain_id_,
     private_key_ |-> s.private_key_]

\* an empty std::optional<ApiCreds>, and one with a value
NoCreds == [has_value |-> FALSE, api_key |-> <<>>, api_secret |-> <<>>, api_passphrase |-> <<>>]

ApiCreds(api_key, api_secret, api_passphrase) ==
    [has_value |-> TRUE, api_key |-> api_key, api_secret |-> api_secret,
     api_passphrase |-> api_passphrase]

\* ClobClient(host)
ClobClient_host ==
    [live |-> TRUE, signer_ |-> NullSigner, creds_ |-> NoCreds, builder_ |-> FALSE, mode_ |-> L0,
     tick_sizes_ |-> {}, neg_risk_ |-> {}, fee_rates_ |-> {}]

\* ClobClient(host, signer)
ClobClient_signer(signer) ==
    [ClobClient_host EXCEPT !.signer_ = signer, !.builder_ = TRUE, !.mode_ = L1]

\* ClobClient(host, signer, creds)
ClobClient_creds(signer, creds) ==
    [ClobClient_host EXCEPT !.signer_ = signer, !.creds_ = creds, !.builder_ = TRUE,
                            !.mode_ = L2]

\* variant with a defect: the level is never too low
assert_level_open(c, level) == TRUE

\* assert_level_1_auth and assert_level_2_auth: TRUE when they return, FALSE
\* when they throw "L1 authentication required" / "L2 authentication required"
assert_level(c, level) == ~(c.mode_ < level)

\* variant with a defect: credentials alone make a client L2
get_client_mode_by_creds(c) ==
    IF c.creds_.has_value THEN L2
    ELSE IF ~c.signer_.null THEN L1
    ELSE L0

\* ClobClient::get_client_mode
get_client_mode(c) ==
    IF ~c.signer_.null /\ c.creds_.has_value THEN L2
    ELSE IF ~c.signer_.null THEN L1
    ELSE L0

\* std::to_string of a count that is not negative
RECURSIVE to_string(_)
to_string(n) ==
    IF n < 10 THEN <<HexDigits[n + 1]>> ELSE to_string(n \div 10) \o <<HexDigits[(n % 10) + 1]>>

NoHeaders == [k \in {} |-> <<>>]

Threw(error) == [status |-> "error", error |-> error, headers |-> NoHeaders]

\* create_l2_headers after its check, from what it reads of the client: the
\* secret (509), the signer's address (562), the key (567), the passphrase (568)
l2_headers_of(api_secret, address, api_key, api_passphrase, now, method, request_path, body) ==
    Only({IF sig.status # "ok" THEN Threw(sig.error)
          ELSE [status |-> "ok", error |-> "",
                headers |-> [POLY_ADDRESS |-> [k \in 1..Len(address) |-> tolower(address[k])],
                             POLY_API_KEY |-> api_key,
                             POLY_PASSPHRASE |-> api_passphrase,
                             POLY_SIGNATURE |-> sig.signature,
                             POLY_TIMESTAMP |-> to_string(now)]] :
             sig \in {l2_signature(api_secret, to_string(now), method, request_path, body)}})

\* ClobClient::create_l2_headers at the second now of the system clock
create_l2_headers(c, now, method, request_path, body) ==
    IF ~assert_level(c, L2) THEN Threw("L2 authentication required")
    ELSE l2_headers_of(c.creds_.api_secret, c.signer_.address_, c.creds_.api_key,
                       c.creds_.api_passphrase, now, method, request_path, body)

-----------------------------------------------------------------------------
(* The state before anything is called *)

NoRlpCall ==
    [fn |-> "none", done |-> FALSE, data |-> <<>>, items |-> <<>>, value |-> U64Zero,
     ret |-> <<>>]

NoTx ==
    [nonce |-> U64Zero, gas_price |-> <<>>, gas_limit |-> U64Zero, to |-> <<>>,
     value |-> <<>>, data |-> <<>>, chain_id |-> U64Zero]

NoTxCall == [tx |-> NoTx, private_key |-> <<>>, out |-> NoTxOutcome]

NoSigner ==
    [state |-> "none", error |-> "", input |-> <<>>, private_key_ |-> NoKey,
     address_ |-> <<>>, chain_id_ |-> U64Zero, ctx_ |-> 0]

NoU256Call == [value |-> <<>>, status |-> "none", ret |-> <<>>]

\* the Signer objects of a behaviour
SignerSlots == 1..2

NoEipCall ==
    [fn |-> "none", type |-> <<>>, value |-> JsonNull, primary_type |-> <<>>,
     data |-> JsonNull, types |-> <<>>, domain |-> <<>>, hex |-> <<>>,
     ub |-> [abort |-> TRUE, value |-> JsonNull],
     status |-> "none", error |-> "", ret |-> <<>>]

NoKeccakCall ==
    [data |-> <<>>, status |-> "none", st |-> <<>>, blocks |-> <<>>, permutations |-> 0,
     hash |-> <<>>]

NoL2Call ==
    [status |-> "none", now |-> 0, method |-> <<>>, request_path |-> <<>>, body |-> <<>>,
     error |-> "", headers |-> NoHeaders]

\* the calls that may run on the client at once
Threads == 1..2

NoClient == [ClobClient_host EXCEPT !.live = FALSE]

\* a caller: the call it is in or has made, what came of it, the client and
\* the number of requests as they were when the call began, and the values
\* the call has read from the client so far
NoThread ==
    [pc |-> "idle", op |-> "none", calls |-> 0, status |-> "none", error |-> "",
     headers |-> NoHeaders, before |-> NoClient, sent_before |-> 0,
     address |-> <<>>, chain_id |-> U64Zero, private_key |-> NoKey,
     api_secret |-> <<>>, api_key |-> <<>>, api_passphrase |-> <<>>, arg |-> NoCreds,
     absent |-> FALSE]

NoThreads == [t \in Threads |-> NoThread]

\* no EthRpcClient or ApprovalHelper call in progress.  clock is the whole
\* seconds of steady_clock::now() - start; approved is the node's side: the
\* approvals the chain holds; events is what the call has done at the node
NoRpc ==
    [op |-> "none", pc |-> "idle", timeout_seconds |-> 0, clock |-> 0, elapsed |-> 0,
     polls |-> 0, paused |-> 0, last |-> "none", ret |-> "none", error |-> "",
     approved |-> {}, step |-> 0, all_set |-> TRUE, events |-> <<>>]

\* the HttpClient objects of the process
HttpObjs == 1..2

\* an HttpClient: heartbeat_running_ (flag), heartbeat_thread_ (thread: "none"
\* when not joinable, else "running" or "exited"), where its heartbeat thread
\* is (hb, ticks), who holds client_mutex_, whether it still holds its
\* connection, and two notes: stop_heartbeat has returned and start_heartbeat
\* was not called since (stopped), the object was made by the move constructor
\* (by_move)
NoHttpObj ==
    [state |-> "none", flag |-> FALSE, thread |-> "none", hb |-> "none", ticks |-> 0,
     mutex |-> "free", conn |-> FALSE, stopped |-> FALSE, by_move |-> FALSE]

\* no HttpClient constructed: the objects, the thread that owns them (caller:
\* the call it is in or made last, noop when that found nothing to start or
\* to stop), a second thread that sends requests (requester), and whether the
\* process has died
NoHttp ==
    [obj |-> [i \in HttpObjs |-> NoHttpObj],
     caller |-> [pc |-> "idle", op |-> "none", obj |-> 0, other |-> 0, noop |-> FALSE],
     requester |-> [pc |-> "idle", obj |-> 0],
     crashed |-> FALSE]

\* no calculate_*_market_price call yet
NoMarketCall ==
    [status |-> "none", side |-> "BUY", levels |-> <<>>, positions |-> <<>>,
     amount_to_match |-> 0, order_type |-> "GTC", error |-> "", ret |-> 0]

-----------------------------------------------------------------------------
(* The codec on its own: the initial state holds one call, its argument      *)
(* drawn from a bounded set that has every branch of the codec in it, and    *)
(* the action makes the call.                                                *)

MaxStrLen == 57     \* byte strings of every length 0..MaxStrLen
MaxItems == 3       \* lists of up to MaxItems items

\* lengths whose own length takes two bytes
LongLens == {255, 256, 257}

StringInputs ==
    {BytesOf(n, f, g) : n \in 0..MaxStrLen, f \in ProbeBytes, g \in {0, 255}}
        \cup {BytesOf(n, 1, 0) : n \in LongLens}

ItemInputs ==
    {<<>>, <<128>>, <<5>>, BytesOf(27, 148, 17), BytesOf(28, 1, 0), BytesOf(130, 184, 130)}

ListInputs == UNION {[1..n -> ItemInputs] : n \in 0..MaxItems}

IntInputs == {U64Of(k, f, g) : k \in 0..8, f \in ProbeBytes \ {0}, g \in {0, 255}}

InitRlp ==
    /\ rlp_call \in
          {[NoRlpCall EXCEPT !.fn = "encode_string", !.data = d] : d \in StringInputs}
             \cup {[NoRlpCall EXCEPT !.fn = "encode_list", !.items = l] : l \in ListInputs}
             \cup {[NoRlpCall EXCEPT !.fn = "encode_integer", !.value = v] : v \in IntInputs}
    /\ tx_call = NoTxCall
    /\ signers = [i \in SignerSlots |-> NoSigner]
    /\ contexts = <<>>
    /\ sig_log = EmptyBag
    /\ u256_call = NoU256Call
    /\ eip_call = NoEipCall
    /\ keccak_call = NoKeccakCall
    /\ l2_call = NoL2Call
    /\ client = NoClient
    /\ threads = NoThreads
    /\ http_log = <<>>
    /\ market_call = NoMarketCall
    /\ rpc = NoRpc
    /\ http = NoHttp

CallEncodeString ==
    /\ rlp_call.fn = "encode_string" /\ ~rlp_call.done
    /\ rlp_call' = [rlp_call EXCEPT !.done = TRUE, !.ret = rlp_encode_string(rlp_call.data)]
    /\ UNCHANGED <<market_call, rpc, http, tx_call, signers, contexts, sig_log, u256_call,
                 eip_call, keccak_call, l2_call, client, threads, http_log>>

CallEncodeList ==
    /\ rlp_call.fn = "encode_list" /\ ~rlp_call.done
    /\ rlp_call' = [rlp_call EXCEPT !.done = TRUE, !.ret = rlp_encode_list(rlp_call.items)]
    /\ UNCHANGED <<market_call, rpc, http, tx_call, signers, contexts, sig_log, u256_call,
                 eip_call, keccak_call, l2_call, client, threads, http_log>>

CallEncodeInteger ==
    /\ rlp_call.fn = "encode_integer" /\ ~rlp_call.done
    /\ rlp_call' = [rlp_call EXCEPT !.done = TRUE, !.ret = rlp_encode_integer(rlp_call.value)]
    /\ UNCHANGED <<market_call, rpc, http, tx_call, signers, contexts, sig_log, u256_call,
                 eip_call, keccak_call, l2_call, client, threads, http_log>>

NextRlp == CallEncodeString \/ CallEncodeList \/ CallEncodeInteger

SpecRlp == InitRlp /\ [][NextRlp]_vars

-----------------------------------------------------------------------------
(* Transaction::sign on its own: the initial state holds one transaction and *)
(* one key, and the action signs.  The transactions are those the approval   *)
(* helper builds (gas limit 100000, value "0x0", chain 137, approve          *)
(* calldata) and their neighbours at every edge of the encoding.             *)

POLYGON == 137
AMOY == 80002

USDC == <<"0","x","2","7","9","1","B","c","a","1","f","2","d","e","4","6","6","1","E","D","8","8","A","3","0","C","9","9","A","7","a","9","4","4","9","A","a","8","4","1","7","4">>
EXCHANGE == <<"0","x","4","b","F","b","4","1","d","5","B","3","5","7","0","D","e","F","d","0","3","C","3","9","a","9","A","4","D","8","d","E","6","B","d","8","B","8","9","8","2","E">>

\* the private keys of the tests, a key that is too short, a key with a
\* character that is no hex digit
TestKey1 == <<"0","x","a","c","0","9","7","4","b","e","c","3","9","a","1","7","e","3","6","b","a","4","a","6","b","4","d","2","3","8","f","f","9","4","4","b","a","c","b","4","7","8","c","b","e","d","5","e","f","c","a","e","7","8","4","d","7","b","f","4","f","2","f","f","8","0">>
TestKey2 == <<"5","9","c","6","9","9","5","e","9","9","8","f","9","7","a","5","a","0","0","4","4","9","6","6","f","0","9","4","5","3","8","9","d","c","9","e","8","6","d","a","e","8","8","c","7","a","8","4","1","2","f","4","6","0","3","b","6","b","7","8","6","9","0","d">>
ShortKey == <<"0","x","1","2","3","4">>
BadHexKey == <<"z","z">> \o SubstrFrom(TestKey2, 2)

MaxUint256Hex == [i \in 1..64 |-> "f"]

NonceInputs == {U64Zero, U64FromNat(300)}

GasPriceInputs ==
    {<<"0","x","0">>, <<"0","x","6","f","c","2","3","a","c","0","0">>,
     <<"0","x","0","0","f","f">>, <<"0","x","7","f">>}

GasLimitInputs == {U64FromNat(100000)}

ValueInputs ==
    {<<"0","x","0">>, <<"0","x","0","0">>, <<"0","x">>, <<"0","x","0","0","0","1","0","0">>,
     <<"0","x","d","e","0","b","6","b","3","a","7","6","4","0","0","0","0">>,
     <<"0","x","z","1">>}

DataInputs == {<<"0","x">>, encode_approve(EXCHANGE, MaxUint256Hex)}

\* 137, 80002, 0, and the chain ids around the point where chain_id * 2 + 35
\* leaves 64 bits: 2^63 - 19, 2^63 - 18, 2^63, 2^64 - 1
ChainIdInputs ==
    {U64FromNat(POLYGON), U64FromNat(AMOY), U64Zero,
     <<127, 255, 255, 255, 255, 255, 255, 237>>,
     <<127, 255, 255, 255, 255, 255, 255, 238>>,
     <<128, 0, 0, 0, 0, 0, 0, 0>>,
     <<255, 255, 255, 255, 255, 255, 255, 255>>}

TxInputs ==
    [nonce : NonceInputs, gas_price : GasPriceInputs, gas_limit : GasLimitInputs,
     to : {USDC}, value : ValueInputs, data : DataInputs, chain_id : ChainIdInputs]

InitTx ==
    /\ rlp_call = NoRlpCall
    /\ tx_call \in [tx : TxInputs, private_key : {TestKey1, ShortKey, BadHexKey},
                    out : {NoTxOutcome}]
    /\ signers = [i \in SignerSlots |-> NoSigner]
    /\ contexts = <<>>
    /\ sig_log = EmptyBag
    /\ u256_call = NoU256Call
    /\ eip_call = NoEipCall
    /\ keccak_call = NoKeccakCall
    /\ l2_call = NoL2Call
    /\ client = NoClient
    /\ threads = NoThreads
    /\ http_log = <<>>
    /\ market_call = NoMarketCall
    /\ rpc = NoRpc
    /\ http = NoHttp

\* tx.sign(private_key): the Signer it makes lives in the call, so its context
\* ends destroyed, unless the constructor left by an exception of hex_to_bytes
SignTransaction ==
    /\ tx_call.out.status = "none"
    /\ LET out == Transaction_sign(tx_call.tx, tx_call.private_key)
       IN  /\ tx_call' = [tx_call EXCEPT !.out = out]
           /\ contexts' = IF out.ctx = "none" THEN contexts
                          ELSE Append(contexts, out.ctx)
    /\ UNCHANGED <<market_call, rpc, http, rlp_call, signers, sig_log, u256_call,
                 eip_call, keccak_call, l2_call, client, threads, http_log>>

NextTx == SignTransaction

SpecTx == InitTx /\ [][NextTx]_vars

-----------------------------------------------------------------------------
(* Two Signer objects through their lives: constructed from a key string,   *)
(* used to sign, destroyed.  sig_log counts what every sign call returned.  *)

MaxSigs == 3        \* sign calls in one behaviour

\* a valid key without its last digit (63 digits), the zero key, the curve
\* order itself
Key63 == Substr(TestKey2, 0, 63)
ZeroKey == [i \in 1..64 |-> "0"]
OrderKey == HexOfBytes(CurveOrder)

KeyInputs == {TestKey1, ShortKey, BadHexKey, Key63, ZeroKey, OrderKey}

\* the message hashes of the tests: zero but for the last byte
Hash32(last) == [i \in 1..32 |-> IF i = 32 THEN last ELSE 0]

HashInputs == {Hash32(1), Hash32(42)}

InitSigner ==
    /\ rlp_call = NoRlpCall
    /\ tx_call = NoTxCall
    /\ signers = [i \in SignerSlots |-> NoSigner]
    /\ contexts = <<>>
    /\ sig_log = EmptyBag
    /\ u256_call = NoU256Call
    /\ eip_call = NoEipCall
    /\ keccak_call = NoKeccakCall
    /\ l2_call = NoL2Call
    /\ client = NoClient
    /\ threads = NoThreads
    /\ http_log = <<>>
    /\ market_call = NoMarketCall
    /\ rpc = NoRpc
    /\ http = NoHttp

\* Signer signer(private_key_hex, chain_id): the context is created first, and
\* every exit but the exception of hex_to_bytes destroys it or hands it to the
\* object.  A constructor that throws leaves no object, only what it wrote.
Construct(i) ==
    /\ signers[i].state = "none"
    /\ \E private_key_hex \in KeyInputs :
          LET out == Signer_ctor(private_key_hex, U64FromNat(POLYGON))
          IN  /\ signers' = [signers EXCEPT ![i] =
                    [state |-> IF out.error = "" THEN "live" ELSE "failed",
                     error |-> out.error,
                     input |-> private_key_hex,
                     private_key_ |-> IF out.key_written THEN out.private_key_
                                      ELSE signers[i].private_key_,
                     address_ |-> out.address_,
                     chain_id_ |-> out.chain_id_,
                     ctx_ |-> Len(contexts) + 1]]
              /\ contexts' = Append(contexts,
                                    IF out.ctx_destroyed THEN "destroyed" ELSE "live")
    /\ UNCHANGED <<market_call, rpc, http, rlp_call, tx_call, sig_log, u256_call,
                 eip_call, keccak_call, l2_call, client, threads, http_log>>

\* Signer::~Signer: if (ctx_) secp256k1_context_destroy(ctx_); nothing else is
\* written, so the bytes of private_key_ stay where they were
Destroy(i) ==
    /\ signers[i].state = "live"
    /\ contexts' = [contexts EXCEPT ![signers[i].ctx_] = "destroyed"]
    /\ signers' = [signers EXCEPT ![i].state = "destroyed"]
    /\ UNCHANGED <<market_call, rpc, http, rlp_call, tx_call, sig_log, u256_call,
                 eip_call, keccak_call, l2_call, client, threads, http_log>>

\* one more entry of sig_log
Logged(fn, i, input, sig) ==
    sig_log' = sig_log (+) SetToBag({[fn |-> fn, key |-> signers[i].private_key_,
                                      input |-> input, sig |-> sig]})

\* signer.sign(message_hash)
Sign(i) ==
    /\ signers[i].state = "live"
    /\ BagCardinality(sig_log) < MaxSigs
    /\ \E message_hash \in HashInputs :
          Logged("sign", i, message_hash, Signer_sign(signers[i].private_key_, message_hash))
    /\ UNCHANGED <<market_call, rpc, http, rlp_call, tx_call, signers, contexts, u256_call,
                 eip_call, keccak_call, l2_call, client, threads, http_log>>

\* signer.sign_hash(hash): logged as the hex of r, s and v
SignHash(i) ==
    /\ signers[i].state = "live"
    /\ BagCardinality(sig_log) < MaxSigs
    /\ \E hash \in HashInputs :
          LET out == Signer_sign_hash(signers[i].private_key_, hash)
          IN  Logged("sign_hash", i, hash, bytes_to_hex(out.r \o out.s \o <<out.v>>))
    /\ UNCHANGED <<market_call, rpc, http, rlp_call, tx_call, signers, contexts, u256_call,
                 eip_call, keccak_call, l2_call, client, threads, http_log>>

\* signer.sign_typed_data(domain, primary_type, message, types), the typed data
\* given by its domain separator and its struct hash
SignTypedData(i) ==
    /\ signers[i].state = "live"
    /\ BagCardinality(sig_log) < MaxSigs
    /\ \E struct_h \in HashInputs :
          Logged("sign_typed_data", i, Hash32(137) \o struct_h,
                 Signer_sign_typed_data(signers[i].private_key_, Hash32(137), struct_h))
    /\ UNCHANGED <<market_call, rpc, http, rlp_call, tx_call, signers, contexts, u256_call,
                 eip_call, keccak_call, l2_call, client, threads, http_log>>

NextSigner ==
    \E i \in SignerSlots :
        Construct(i) \/ Destroy(i) \/ Sign(i) \/ SignHash(i) \/ SignTypedData(i)

SpecSigner == InitSigner /\ [][NextSigner]_vars

-----------------------------------------------------------------------------
(* eip712::encode_uint256(const std::string&) on its own: the initial state  *)
(* holds a decimal string, the action encodes it.                            *)

MaxU256Bytes == 33  \* numbers of up to MaxU256Bytes bytes

\* b * 256 + byte on decimal digits, least significant first
DecMulAdd256(digits, byte) ==
    LET Digit(st, i) ==
            LET t == st.digits[i] * 256 + st.carry
            IN  [digits |-> [st.digits EXCEPT ![i] = t % 10], carry |-> t \div 10]
    IN  FoldRange(Digit, [digits |-> digits, carry |-> byte], 1, Len(digits)).digits

\* the decimal digits of the number a big-endian byte string stands for, without
\* leading zeros: the empty string for zero
DecimalOfBytes(b) ==
    LET width == 3 * Len(b) + 1
        Byte256(digits, i) == DecMulAdd256(digits, b[i])
        digits == FoldRange(Byte256, [k \in 1..width |-> 0], 1, Len(b))
        n == Cardinality({k \in 1..width : \E j \in k..width : digits[j] # 0})
    IN  [k \in 1..n |-> DecDigits[digits[n + 1 - k] + 1]]

\* a decimal string without its leading zeros
DecNormal(x) ==
    LET z == Cardinality({k \in 1..Len(x) : \A j \in 1..k : x[j] = "0"})
    IN  SubstrFrom(x, z)

\* a < b for decimal strings without leading zeros
DecLess(a, b) ==
    \/ Len(a) < Len(b)
    \/ /\ Len(a) = Len(b)
       /\ \E i \in 1..Len(a) :
             HexVal(a[i]) < HexVal(b[i]) /\ \A j \in 1..(i - 1) : a[j] = b[j]

TwoPow64 == <<"1","8","4","4","6","7","4","4","0","7","3","7","0","9","5","5","1","6","1","6">>

TwoPow256 == <<
    "1","1","5","7","9","2","0","8","9","2","3","7","3","1","6","1","9","5","4","2",
    "3","5","7","0","9","8","5","0","0","8","6","8","7","9","0","7","8","5","3","2",
    "6","9","9","8","4","6","6","5","6","4","0","5","6","4","0","3","9","4","5","7",
    "5","8","4","0","0","7","9","1","3","1","2","9","6","3","9","9","3","6">>

\* as a decimal string: "0" for zero
DecimalString(b) == IF DecimalOfBytes(b) = <<>> THEN <<"0">> ELSE DecimalOfBytes(b)

U256Inputs ==
    {DecimalString(BytesOf(n, f, g)) : n \in 0..MaxU256Bytes, f \in {1, 128, 255}, g \in {0, 255}}
        \cup {<<"0", "0">> \o DecimalString(BytesOf(n, 255, 255)) : n \in {0, 1, 8, 9, 32, 33}}
        \cup {<<"1">> \o [k \in 1..n |-> "0"] : n \in {19, 20, 76, 77, 78}}
        \cup {[k \in 1..n |-> "9"] : n \in {19, 20, 77, 78, 79}}
        \cup {TwoPow64, TwoPow256}

InitU256 ==
    /\ rlp_call = NoRlpCall
    /\ tx_call = NoTxCall
    /\ signers = [i \in SignerSlots |-> NoSigner]
    /\ contexts = <<>>
    /\ sig_log = EmptyBag
    /\ u256_call \in [value : U256Inputs, status : {"none"}, ret : {<<>>}]
    /\ eip_call = NoEipCall
    /\ keccak_call = NoKeccakCall
    /\ l2_call = NoL2Call
    /\ client = NoClient
    /\ threads = NoThreads
    /\ http_log = <<>>
    /\ market_call = NoMarketCall
    /\ rpc = NoRpc
    /\ http = NoHttp

EncodeUint256 ==
    /\ u256_call.status = "none"
    /\ LET out == encode_uint256_str(u256_call.value)
       IN  u256_call' = [u256_call EXCEPT !.status = out.status, !.ret = out.ret]
    /\ UNCHANGED <<market_call, rpc, http, rlp_call, tx_call, signers, contexts, sig_log,
                 eip_call, keccak_call, l2_call, client, threads, http_log>>

NextU256 == EncodeUint256

SpecU256 == InitU256 /\ [][NextU256]_vars

-----------------------------------------------------------------------------
(* namespace eip712 on its own: the initial state holds one call with its     *)
(* arguments, the action makes the call.                                      *)

Field(name, type) == [name |-> name, type |-> type]

\* the schema of the test TypeHash, a struct that nests it, the ClobAuth schema
\* of create_l1_headers, and a struct whose fields are declared out of
\* alphabetical order
PersonFields == <<Field(<<"n","a","m","e">>, <<"s","t","r","i","n","g">>), Field(<<"w","a","l","l","e","t">>, <<"a","d","d","r","e","s","s">>)>>

MailFields ==
    <<Field(<<"f","r","o","m">>, <<"P","e","r","s","o","n">>), Field(<<"t","o">>, <<"P","e","r","s","o","n">>), Field(<<"c","o","n","t","e","n","t","s">>, <<"s","t","r","i","n","g">>)>>

ClobAuthFields ==
    <<Field(<<"a","d","d","r","e","s","s">>, <<"a","d","d","r","e","s","s">>), Field(<<"t","i","m","e","s","t","a","m","p">>, <<"s","t","r","i","n","g">>),
      Field(<<"n","o","n","c","e">>, <<"u","i","n","t","2","5","6">>), Field(<<"m","e","s","s","a","g","e">>, <<"s","t","r","i","n","g">>)>>

PairFields == <<Field(<<"z","e","t","a">>, <<"u","i","n","t","2","5","6">>), Field(<<"a","l","p","h","a">>, <<"b","y","t","e","s">>)>>

MailTypes == (<<"P","e","r","s","o","n">> :> PersonFields) @@ (<<"M","a","i","l">> :> MailFields)

AuthTypes == (<<"C","l","o","b","A","u","t","h">> :> ClobAuthFields) @@ (<<"P","a","i","r">> :> PairFields)

SchemaInputs == {MailTypes, AuthTypes}

Cow == JsonObject((<<"n","a","m","e">> :> JsonString(<<"C","o","w">>)) @@ (<<"w","a","l","l","e","t">> :> JsonString(USDC)))

Bob == JsonObject((<<"n","a","m","e">> :> JsonString(<<"B","o","b">>)) @@ (<<"w","a","l","l","e","t">> :> JsonString(EXCHANGE)))

\* a Person without its wallet
NoWallet == JsonObject(<<"n","a","m","e">> :> JsonString(<<"B","o","b">>))

Mail(from, to) ==
    JsonObject((<<"f","r","o","m">> :> from) @@ (<<"t","o">> :> to) @@ (<<"c","o","n","t","e","n","t","s">> :> JsonString(<<"H","e","l","l","o">>)))

ClobAuth ==
    JsonObject((<<"a","d","d","r","e","s","s">> :> JsonString(USDC)) @@ (<<"t","i","m","e","s","t","a","m","p">> :> JsonString(<<"1","7","0","0","0","0","0","0","0","0">>))
                  @@ (<<"n","o","n","c","e">> :> JsonNumber(U64Zero))
                  @@ (<<"m","e","s","s","a","g","e">> :> JsonString(<<"T","h","i","s"," ","m","e","s","s","a","g","e"," ","a","t","t","e","s","t","s">>)))

Pair == JsonObject((<<"z","e","t","a">> :> JsonString(TwoPow64)) @@ (<<"a","l","p","h","a">> :> JsonString(<<"0","x","1","2","3","4">>)))

\* an object without one of its members
Without(object, name) ==
    JsonObject([n \in (DOMAIN object.obj) \ {name} |-> object.obj[n]])

\* what a read of a member that is not there may come to
UbInputs ==
    {[abort |-> TRUE, value |-> JsonNull],
     [abort |-> FALSE, value |-> JsonNull],
     [abort |-> FALSE, value |-> JsonString(<<"0">>)],
     [abort |-> FALSE, value |-> JsonNumber(U64FromNat(7))]}

NoUb == [abort |-> TRUE, value |-> JsonNull]

\* type tags: the ones encode_value knows, and others
KnownTags == {<<"s","t","r","i","n","g">>, <<"b","y","t","e","s">>, <<"a","d","d","r","e","s","s">>, <<"u","i","n","t","2","5","6">>, <<"u","i","n","t","8">>, <<"i","n","t","2","5","6">>, <<"P","e","r","s","o","n">>}

OtherTags ==
    {<<"b","o","o","l">>, <<"b","y","t","e","s","3","2">>, <<"u","i","n","t","2","5","6","[","]">>, <<"u","i","n","t","f","o","o">>, <<"i","n","t","e","g","e","r">>, <<"i","n","t","e","r","v","a","l">>, <<"f","l","o","a","t">>,
     <<"S","t","r","i","n","g">>, <<"O","r","d","e","r">>, <<>>}

\* values for a tag: numbers and decimal strings where the tag starts as an
\* integer type does, strings and objects elsewhere
NumericValues == {JsonNumber(U64FromNat(5)), JsonString(<<"1","0","0","0">>), JsonString(TwoPow256), JsonNull}

OtherValues == {JsonString(<<"H","e","l","l","o">>), JsonString(USDC), JsonString(<<"0","x","1","2","3","4">>), Cow, NoWallet, JsonNull}

ValueCalls ==
    {[type |-> t, value |-> v] :
        t \in {g \in KnownTags \cup OtherTags : StartsWith(g, <<"u","i","n","t">>) \/ StartsWith(g, <<"i","n","t">>)},
        v \in NumericValues}
      \cup
    {[type |-> t, value |-> v] :
        t \in {g \in KnownTags \cup OtherTags : ~(StartsWith(g, <<"u","i","n","t">>) \/ StartsWith(g, <<"i","n","t">>))},
        v \in OtherValues}

StructCalls ==
    {[primary_type |-> <<"M","a","i","l">>, data |-> d, types |-> MailTypes] :
        d \in {Mail(Cow, Bob), Mail(Bob, Cow), Mail(Cow, NoWallet),
               Without(Mail(Cow, Bob), <<"c","o","n","t","e","n","t","s">>), Without(Mail(Cow, Bob), <<"f","r","o","m">>), Cow}}
      \cup
    {[primary_type |-> <<"P","e","r","s","o","n">>, data |-> d, types |-> MailTypes] :
        d \in {Cow, Bob, NoWallet, JsonString(<<"H","e","l","l","o">>)}}
      \cup
    {[primary_type |-> <<"C","l","o","b","A","u","t","h">>, data |-> d, types |-> AuthTypes] :
        d \in {ClobAuth, Without(ClobAuth, <<"n","o","n","c","e">>), Without(ClobAuth, <<"a","d","d","r","e","s","s">>)}}
      \cup
    {[primary_type |-> <<"P","a","i","r">>, data |-> d, types |-> AuthTypes] :
        d \in {Pair, Without(Pair, <<"z","e","t","a">>)}}
      \cup
    {[primary_type |-> <<"O","r","d","e","r">>, data |-> Pair, types |-> AuthTypes]}

TypeHashCalls ==
    {[primary_type |-> t, types |-> s] :
        t \in {<<"P","e","r","s","o","n">>, <<"M","a","i","l">>, <<"C","l","o","b","A","u","t","h">>, <<"P","a","i","r">>, <<"O","r","d","e","r">>, <<>>}, s \in SchemaInputs}

DomainKeys == <<"name", "version", "chainId", "verifyingContract", "salt">>

\* salts of 32 bytes with and without 0x, of 31 and 33 bytes, of 63 digits,
\* and the empty one
SaltInputs ==
    {TestKey1, TestKey2, Substr(TestKey1, 0, 64), TestKey1 \o <<"0","0">>, Key63, <<"0","x">>}

DomainMember(key, salt) ==
    CASE key = "name" -> JsonString(<<"C","l","o","b","A","u","t","h","D","o","m","a","i","n">>)
      [] key = "version" -> JsonString(<<"1">>)
      [] key = "chainId" -> JsonNumber(U64FromNat(POLYGON))
      [] key = "verifyingContract" -> JsonString(EXCHANGE)
      [] OTHER -> JsonString(salt)

DomainInputs ==
    {[key \in present |-> DomainMember(key, salt)] :
        present \in SUBSET {DomainKeys[k] : k \in 1..5}, salt \in SaltInputs}

\* hex strings: well formed ones, and ones with a character that is no digit
HexInputs ==
    {TestKey1, TestKey2, USDC, <<"0","x","1","2","3","4">>, <<"1","2","3","4">>, <<"0","X","1","2","a","b">>, <<"0","x","a","b","c">>, <<"0","x">>, <<>>,
     <<"0","x","1","z","3","4">>, <<"0","x","z","z","3","4">>, <<"0","x","g","1">>, <<"1","2","x","y">>, <<"i","n","v","a","l","i","d","-","k","e","y">>, <<"0","x","1","2"," ","4">>, <<"0","x","-","1">>,
     <<"0","x","+","f">>, <<"0","x","1","2","3","4","5","6","7","z">>, BadHexKey, <<"0","x","1">> \o SubstrFrom(BadHexKey, 1)}

EipCall(fn) == [NoEipCall EXCEPT !.fn = fn]

InitEip712 ==
    /\ rlp_call = NoRlpCall
    /\ tx_call = NoTxCall
    /\ signers = [i \in SignerSlots |-> NoSigner]
    /\ contexts = <<>>
    /\ sig_log = EmptyBag
    /\ u256_call = NoU256Call
    /\ eip_call \in
          {[EipCall("encode_value") EXCEPT !.type = c.type, !.value = c.value,
                                           !.types = MailTypes] : c \in ValueCalls}
             \cup {[EipCall(fn) EXCEPT !.primary_type = c.primary_type, !.data = c.data,
                                       !.types = c.types] :
                       fn \in {"encode_struct", "hash_struct"}, c \in StructCalls}
             \cup {[EipCall("type_hash") EXCEPT !.primary_type = c.primary_type,
                                                !.types = c.types] : c \in TypeHashCalls}
             \cup {[EipCall("encode_domain") EXCEPT !.domain = d] : d \in DomainInputs}
             \cup {[EipCall("hex_to_bytes") EXCEPT !.hex = h] : h \in HexInputs}
    /\ keccak_call = NoKeccakCall
    /\ l2_call = NoL2Call
    /\ client = NoClient
    /\ threads = NoThreads
    /\ http_log = <<>>
    /\ market_call = NoMarketCall
    /\ rpc = NoRpc
    /\ http = NoHttp

\* the call returned, threw or aborted
Returned(out) ==
    /\ eip_call' = [eip_call EXCEPT !.status = out.status, !.error = out.error,
                                    !.ret = out.ret]
    /\ UNCHANGED <<market_call, rpc, http, rlp_call, tx_call, signers, contexts, sig_log, u256_call,
                   keccak_call, l2_call, client, threads, http_log>>

\* what this run makes of a read with no defined result, should there be one
ReturnedUnder(ub, out) ==
    /\ eip_call' = [eip_call EXCEPT !.ub = ub, !.status = out.status,
                                    !.error = out.error, !.ret = out.ret]
    /\ UNCHANGED <<market_call, rpc, http, rlp_call, tx_call, signers, contexts, sig_log, u256_call,
                   keccak_call, l2_call, client, threads, http_log>>

CallEncodeValue ==
    /\ eip_call.fn = "encode_value" /\ eip_call.status = "none"
    /\ \E ub \in UbInputs :
          ReturnedUnder(ub, encode_value(eip_call.type, eip_call.value, eip_call.types, ub))

CallEncodeStruct ==
    /\ eip_call.fn = "encode_struct" /\ eip_call.status = "none"
    /\ \E ub \in UbInputs :
          ReturnedUnder(ub, encode_struct(eip_call.primary_type, eip_call.data,
                                          eip_call.types, ub))

CallHashStruct ==
    /\ eip_call.fn = "hash_struct" /\ eip_call.status = "none"
    /\ \E ub \in UbInputs :
          ReturnedUnder(ub, hash_struct(eip_call.primary_type, eip_call.data,
                                        eip_call.types, ub))

CallTypeHash ==
    /\ eip_call.fn = "type_hash" /\ eip_call.status = "none"
    /\ Returned(type_hash(eip_call.primary_type, eip_call.types))

CallEncodeDomain ==
    /\ eip_call.fn = "encode_domain" /\ eip_call.status = "none"
    /\ Returned(encode_domain(eip_call.domain))

CallHexToBytes ==
    /\ eip_call.fn = "hex_to_bytes" /\ eip_call.status = "none"
    /\ LET bytes == eip712_hex_to_bytes(eip_call.hex)
       IN  Returned(IF bytes.ok THEN EipOk(bytes.bytes) ELSE EipError("invalid_argument"))

NextEip712 ==
    \/ CallEncodeValue
    \/ CallEncodeStruct
    \/ CallHashStruct
    \/ CallTypeHash
    \/ CallEncodeDomain
    \/ CallHexToBytes

SpecEip712 == InitEip712 /\ [][NextEip712]_vars

-----------------------------------------------------------------------------
(* keccak::hash256 on its own: the initial state holds a message, the action  *)
(* hashes it.                                                                 *)

MaxMsgLen == 273    \* messages of every length 0..MaxMsgLen

MessageInputs == {BytesOf(n, f, 255) : n \in 0..MaxMsgLen, f \in {1, 128}}

InitKeccak ==
    /\ rlp_call = NoRlpCall
    /\ tx_call = NoTxCall
    /\ signers = [i \in SignerSlots |-> NoSigner]
    /\ contexts = <<>>
    /\ sig_log = EmptyBag
    /\ u256_call = NoU256Call
    /\ eip_call = NoEipCall
    /\ keccak_call \in {[NoKeccakCall EXCEPT !.data = d] : d \in MessageInputs}
    /\ l2_call = NoL2Call
    /\ client = NoClient
    /\ threads = NoThreads
    /\ http_log = <<>>
    /\ market_call = NoMarketCall
    /\ rpc = NoRpc
    /\ http = NoHttp

Hash256 ==
    /\ keccak_call.status = "none"
    /\ LET out == hash256(keccak_call.data)
       IN  keccak_call' = [keccak_call EXCEPT !.status = "ok", !.st = out.st,
                                              !.blocks = out.blocks,
                                              !.permutations = out.permutations,
                                              !.hash = out.hash]
    /\ UNCHANGED <<market_call, rpc, http, rlp_call, tx_call, signers, contexts, sig_log, u256_call,
                   eip_call, l2_call, client, threads, http_log>>

NextKeccak == Hash256

SpecKeccak == InitKeccak /\ [][NextKeccak]_vars

-----------------------------------------------------------------------------
(* create_l2_headers on a client that has credentials: the client is built    *)
(* with a signer and one of the secrets below, then asked once for headers.   *)

MaxSecretLen == 257

UrlChars == <<"A","B","C","D","E","F","G","H","I","J","K","L","M","N","O","P","Q","R","S","T","U","V","W","X","Y","Z","a","b","c","d","e","f","g","h","i","j","k","l","m","n","o","p","q","r","s","t","u","v","w","x","y","z","0","1","2","3","4","5","6","7","8","9","-","_">>

\* bit i of a byte string, counted from 0 at the top of the first byte, 0 past
\* its end
BitAt(bytes, i) ==
    IF i < 8 * Len(bytes) THEN (bytes[(i \div 8) + 1] \div (2 ^ (7 - (i % 8)))) % 2 ELSE 0

\* the URL-safe base64 text of a byte string, six bits a character, without
\* and with the '=' that fill the last group of four
UrlBase64Digits(bytes) ==
    [j \in 1..((8 * Len(bytes) + 5) \div 6) |->
        UrlChars[32 * BitAt(bytes, 6 * j - 6) + 16 * BitAt(bytes, 6 * j - 5)
                 + 8 * BitAt(bytes, 6 * j - 4) + 4 * BitAt(bytes, 6 * j - 3)
                 + 2 * BitAt(bytes, 6 * j - 2) + BitAt(bytes, 6 * j - 1) + 1]]

UrlBase64(bytes) ==
    LET digits == UrlBase64Digits(bytes)
    IN  digits \o [k \in 1..((4 - (Len(digits) % 4)) % 4) |-> "="]

\* the secrets as bytes: short ones, the 32 bytes of a real secret, and ones
\* at and past the 256 bytes that create_l2_headers reads
SecretLengths == {1, 2, 3, 31, 32, 33, MaxSecretLen - 2, MaxSecretLen - 1, MaxSecretLen}

SecretBytes ==
    {BytesOf(n, f, g) : n \in SecretLengths, f \in {0, 251}, g \in {0, 255}}

\* the secrets as the server hands them out, padded, and with the '=' left off
SecretInputs ==
    {UrlBase64(b) : b \in SecretBytes} \cup {UrlBase64Digits(b) : b \in SecretBytes}
        \cup {<<>>}

ZeroSecret == UrlBase64(BytesOf(32, 0, 0))

TheSigner == SignerPtr(Signer_ctor(TestKey1, U64FromNat(POLYGON)))

TheCreds(api_secret) == ApiCreds(<<"k","e","y","-","1">>, api_secret, <<"p","a","s","s","-","1">>)

L2Calls ==
    {[NoL2Call EXCEPT !.now = now, !.method = m, !.request_path = p, !.body = b] :
        now \in {1, 1700000000}, m \in {<<"G","E","T">>, <<"P","O","S","T">>},
        p \in {<<"/">>, <<"/","o","r","d","e","r","s">>}, b \in {<<>>, <<"[","1","]">>}}

InitL2 ==
    /\ rlp_call = NoRlpCall
    /\ tx_call = NoTxCall
    /\ signers = [i \in SignerSlots |-> NoSigner]
    /\ contexts = <<>>
    /\ sig_log = EmptyBag
    /\ u256_call = NoU256Call
    /\ eip_call = NoEipCall
    /\ keccak_call = NoKeccakCall
    /\ l2_call \in L2Calls
    /\ client \in {ClobClient_creds(TheSigner, TheCreds(s)) : s \in SecretInputs}
    /\ threads = NoThreads
    /\ http_log = <<>>
    /\ market_call = NoMarketCall
    /\ rpc = NoRpc
    /\ http = NoHttp

CreateL2Headers ==
    /\ l2_call.status = "none"
    /\ LET out == create_l2_headers(client, l2_call.now, l2_call.method,
                                    l2_call.request_path, l2_call.body)
       IN  l2_call' = [l2_call EXCEPT !.status = out.status, !.error = out.error,
                                      !.headers = out.headers]
    /\ UNCHANGED <<market_call, rpc, http, rlp_call, tx_call, signers, contexts, sig_log, u256_call,
                   eip_call, keccak_call, client, threads, http_log>>

NextL2 == CreateL2Headers

SpecL2 == InitL2 /\ [][NextL2]_vars

-----------------------------------------------------------------------------
(* The calls of ClobClient, src/src/order_builder.cpp, made one after the     *)
(* other by one caller.  A call gives the client after it, the requests it    *)
(* handed to the HTTP client, and what it returned or threw.                  *)

\* create_l1_headers after its check, from what it reads of the signer: the
\* address (452), the chain id (462), the key that signs (476), the address (479)
l1_headers_of(address, chain_id, private_key, address2, now, nonce) ==
    LET clob_auth == JsonObject((<<"a","d","d","r","e","s","s">> :> JsonString(address))
                        @@ (<<"t","i","m","e","s","t","a","m","p">> :> JsonString(to_string(now)))
                        @@ (<<"n","o","n","c","e">> :> JsonNumber(U64FromNat(nonce)))
                        @@ (<<"m","e","s","s","a","g","e">> :> JsonString(<<"T","h","i","s"," ","m","e","s","s","a","g","e"," ","a","t","t","e","s","t","s"," ","t","h","a","t"," ","I"," ","c","o","n","t","r","o","l"," ","t","h","e"," ","g","i","v","e","n"," ","w","a","l","l","e","t">>)))
        domain == [name |-> JsonString(<<"C","l","o","b","A","u","t","h","D","o","m","a","i","n">>), version |-> JsonString(<<"1">>),
                   chainId |-> JsonNumber(chain_id)]
        types == <<"C","l","o","b","A","u","t","h">> :> ClobAuthFields
    IN  Only({IF domain_sep.status # "ok" THEN Threw(domain_sep.error)
              ELSE IF struct_h.status # "ok" THEN Threw(struct_h.error)
              ELSE [status |-> "ok", error |-> "",
                    headers |-> [POLY_ADDRESS |-> address2,
                                 POLY_SIGNATURE |-> Signer_sign_typed_data(private_key,
                                                        domain_sep.ret, struct_h.ret),
                                 POLY_TIMESTAMP |-> to_string(now),
                                 POLY_NONCE |-> to_string(nonce)]] :
                 domain_sep \in {hash_domain(domain)},
                 struct_h \in {hash_struct(<<"C","l","o","b","A","u","t","h">>, clob_auth, types, NoUb)}})

\* ClobClient::create_l1_headers; nonce is nonce.value_or(0)
create_l1_headers(c, now, nonce) ==
    IF ~assert_level(c, L1) THEN Threw("L1 authentication required")
    ELSE l1_headers_of(c.signer_.address_, c.signer_.chain_id_, c.signer_.private_key_,
                       c.signer_.address_, now, nonce)

\* std::optional<json>: the payload handed to HttpClient::post and del
nullopt == [has_value |-> FALSE, dump |-> <<>>]

\* HttpClient::execute_get, execute_post and execute_del: the body transmitted.
\* A GET has none; a POST and a DELETE carry data->dump(), or "{}" without data
execute_body(method, data) ==
    IF method = <<"G","E","T">> THEN <<>>
    ELSE IF data.has_value THEN data.dump
    ELSE <<"{", "}">>

\* a request as HttpClient sends it
Request(method, path, data, headers) ==
    [method |-> method, path |-> path, body |-> execute_body(method, data),
     headers |-> headers]

Outcome(c, requests, r) ==
    Only({[client |-> c, requests |-> requests, status |-> o.status, error |-> o.error,
           headers |-> o.headers] : o \in {r}})

Returned0 == [status |-> "ok", error |-> "", headers |-> NoHeaders]

\* what comes back from the HTTP client: a response that parses, or an exception
Responses == {"ok", "fail"}

AfterResponse(response, headers) ==
    IF response = "ok" THEN [status |-> "ok", error |-> "", headers |-> headers]
    ELSE Threw("http")

\* ClobClient::deauthenticate
deauthenticate(c) ==
    [c EXCEPT !.signer_ = NullSigner, !.creds_ = NoCreds, !.builder_ = FALSE,
              !.mode_ = L0, !.tick_sizes_ = {}, !.neg_risk_ = {}, !.fee_rates_ = {}]

\* variant with a defect: the level is left as it was
set_api_creds_keep_mode(c, creds) == [c EXCEPT !.creds_ = creds]

\* ClobClient::set_api_creds
set_api_creds(c, creds) ==
    LET stored == [c EXCEPT !.creds_ = creds]
    IN  [stored EXCEPT !.mode_ = get_client_mode(stored)]

is_authenticated(c) == c.mode_ >= L1
has_api_credentials(c) == c.mode_ >= L2

\* get_tick_size, get_neg_risk, get_fee_rate_bps: the cached answer, or a
\* request whose parsed answer is stored
get_cached(c, cache, path, token_id, response) ==
    IF token_id \in c[cache] THEN Outcome(c, <<>>, Returned0)
    ELSE Outcome(IF response = "ok" THEN [c EXCEPT ![cache] = @ \cup {token_id}] ELSE c,
                 <<Request(<<"G","E","T">>, path, nullopt, NoHeaders)>>, AfterResponse(response, NoHeaders))

\* the endpoints that begin with assert_level_1_auth, create_or_derive_api_creds
\* that begins with create_api_key, and the ones that begin with
\* assert_level_2_auth
L1Endpoints ==
    {"create_api_key", "derive_api_key", "create_order", "create_market_order",
     "create_or_derive_api_creds"}

L2Endpoints ==
    {"get_api_keys", "get_closed_only_mode", "delete_api_key", "get_order", "get_orders",
     "post_order", "post_orders", "cancel", "cancel_orders", "cancel_all",
     "cancel_market_orders", "get_trades", "get_balance_allowance",
     "update_balance_allowance", "get_notifications", "drop_notifications",
     "is_order_scoring", "are_orders_scoring"}

\* create_and_post_order: create_order, then post_order
ComposedEndpoints == {"create_and_post_order"}

\* the method, the path and the body an endpoint signs and sends
endpoint_request(name) ==
    CASE name = "create_api_key" -> [method |-> <<"P","O","S","T">>, path |-> <<"/","a","u","t","h","/","a","p","i","-","k","e","y">>, body |-> <<>>]
      [] name = "derive_api_key" -> [method |-> <<"G","E","T">>, path |-> <<"/","a","u","t","h","/","d","e","r","i","v","e","-","a","p","i","-","k","e","y">>, body |-> <<>>]
      [] name = "get_api_keys" -> [method |-> <<"G","E","T">>, path |-> <<"/","a","u","t","h","/","a","p","i","-","k","e","y","s">>, body |-> <<>>]
      [] name = "get_closed_only_mode" -> [method |-> <<"G","E","T">>, path |-> <<"/","a","u","t","h","/","b","a","n","-","s","t","a","t","u","s","/","c","l","o","s","e","d","-","o","n","l","y">>, body |-> <<>>]
      [] name = "delete_api_key" -> [method |-> <<"D","E","L","E","T","E">>, path |-> <<"/","a","u","t","h","/","a","p","i","-","k","e","y">>, body |-> <<>>]
      [] name = "get_order" -> [method |-> <<"G","E","T">>, path |-> <<"/","d","a","t","a","/","o","r","d","e","r","/","1">>, body |-> <<>>]
      [] name = "get_orders" -> [method |-> <<"G","E","T">>, path |-> <<"/","d","a","t","a","/","o","r","d","e","r","s">>, body |-> <<>>]
      [] name = "post_order" -> [method |-> <<"P","O","S","T">>, path |-> <<"/","o","r","d","e","r">>, body |-> <<"[","o","r","d","e","r","]">>]
      [] name = "post_orders" -> [method |-> <<"P","O","S","T">>, path |-> <<"/","o","r","d","e","r","s">>, body |-> <<"[","[","o","r","d","e","r","]","]">>]
      [] name = "cancel" -> [method |-> <<"D","E","L","E","T","E">>, path |-> <<"/","o","r","d","e","r">>, body |-> <<"[","o","r","d","e","r","I","D","]">>]
      [] name = "cancel_orders" -> [method |-> <<"D","E","L","E","T","E">>, path |-> <<"/","o","r","d","e","r","s">>, body |-> <<"[","1","]">>]
      [] name = "cancel_all" -> [method |-> <<"D","E","L","E","T","E">>, path |-> <<"/","c","a","n","c","e","l","-","a","l","l">>, body |-> <<>>]
      [] name = "cancel_market_orders" -> [method |-> <<"D","E","L","E","T","E">>, path |-> <<"/","c","a","n","c","e","l","-","m","a","r","k","e","t","-","o","r","d","e","r","s">>, body |-> <<"[","m","a","r","k","e","t","]">>]
      [] name = "get_trades" -> [method |-> <<"G","E","T">>, path |-> <<"/","d","a","t","a","/","t","r","a","d","e","s">>, body |-> <<>>]
      [] name = "get_balance_allowance" -> [method |-> <<"G","E","T">>, path |-> <<"/","b","a","l","a","n","c","e","-","a","l","l","o","w","a","n","c","e">>, body |-> <<>>]
      [] name = "update_balance_allowance" -> [method |-> <<"G","E","T">>, path |-> <<"/","b","a","l","a","n","c","e","-","a","l","l","o","w","a","n","c","e","/","u","p","d","a","t","e">>, body |-> <<>>]
      [] name = "get_notifications" -> [method |-> <<"G","E","T">>, path |-> <<"/","n","o","t","i","f","i","c","a","t","i","o","n","s">>, body |-> <<>>]
      [] name = "drop_notifications" -> [method |-> <<"D","E","L","E","T","E">>, path |-> <<"/","n","o","t","i","f","i","c","a","t","i","o","n","s">>, body |-> <<>>]
      [] name = "is_order_scoring" -> [method |-> <<"G","E","T">>, path |-> <<"/","o","r","d","e","r","-","s","c","o","r","i","n","g">>, body |-> <<>>]
      [] OTHER -> [method |-> <<"P","O","S","T">>, path |-> <<"/","o","r","d","e","r","s","-","s","c","o","r","i","n","g">>, body |-> <<"[","1","]">>]

\* the json an L2 endpoint hands to http_: the endpoints that sign a body sign
\* data.dump() and hand data over; the others hand over std::nullopt, or call
\* a get, which takes no payload
endpoint_data(name) ==
    IF endpoint_request(name).body # <<>>
    THEN [has_value |-> TRUE, dump |-> endpoint_request(name).body]
    ELSE nullopt

\* create_api_key and derive_api_key
l1_endpoint(c, name, now, nonce, response) ==
    IF ~assert_level(c, L1) THEN Outcome(c, <<>>, Threw("L1 authentication required"))
    ELSE Only({IF h.status # "ok" THEN Outcome(c, <<>>, h)
               ELSE Outcome(c, <<Request(rq.method, rq.path, nullopt, h.headers)>>,
                            AfterResponse(response, h.headers)) :
                  h \in {create_l1_headers(c, now, nonce)}, rq \in {endpoint_request(name)}})

\* utils::price_valid: true, false, or the std::invalid_argument of std::stod
\* on a tick size that is no number
PriceChecks == {"valid", "invalid", "stod"}

\* create_order and create_market_order: the price check of create_order, then
\* the order builder signs
local_order(c, name, price_valid) ==
    IF ~assert_level(c, L1) THEN Outcome(c, <<>>, Threw("L1 authentication required"))
    ELSE IF name = "create_order" /\ price_valid = "stod"
    THEN Outcome(c, <<>>, Threw("invalid_argument"))
    ELSE IF name = "create_order" /\ price_valid = "invalid"
    THEN Outcome(c, <<>>, Threw("Invalid price for tick size"))
    ELSE Outcome(c, <<>>, Returned0)

\* an endpoint of the form assert_level_2_auth(); create_l2_headers(...); http_->...
l2_endpoint(c, name, now, response) ==
    IF ~assert_level(c, L2) THEN Outcome(c, <<>>, Threw("L2 authentication required"))
    ELSE Only({Only({IF h.status # "ok" THEN Outcome(c, <<>>, h)
                     ELSE Outcome(c, <<Request(rq.method, rq.path, endpoint_data(name),
                                               h.headers)>>,
                                  AfterResponse(response, h.headers)) :
                        h \in {create_l2_headers(c, now, rq.method, rq.path, rq.body)}}) :
                  rq \in {endpoint_request(name)}})

\* any endpoint; response2 answers the second request of the two that make two
call_endpoint(c, name, now, nonce, price_valid, response, response2) ==
    CASE name \in {"create_api_key", "derive_api_key"} ->
            l1_endpoint(c, name, now, nonce, response)
      [] name \in {"create_order", "create_market_order"} -> local_order(c, name, price_valid)
      [] name = "create_or_derive_api_creds" ->
            Only({IF first.status = "ok" THEN first
                  ELSE [l1_endpoint(c, "derive_api_key", now, nonce, response2)
                           EXCEPT !.requests = first.requests \o @] :
                     first \in {l1_endpoint(c, "create_api_key", now, nonce, response)}})
      [] name = "create_and_post_order" ->
            Only({IF order.status # "ok" THEN order
                  ELSE l2_endpoint(c, "post_order", now, response) :
                     order \in {local_order(c, "create_order", price_valid)}})
      [] OTHER -> l2_endpoint(c, name, now, response)

-----------------------------------------------------------------------------
(* OrderBuilder::calculate_buy_market_price and calculate_sell_market_price,  *)
(* src/src/order_builder.cpp.  A double is held as a count of hundredths, a   *)
(* product of two as a count of ten-thousandths; the books below hold         *)
(* multiples of 0.25 only, for which the arithmetic of double is exact.       *)

RECURSIVE DigitsValue(_)
DigitsValue(digits) ==
    IF digits = <<>> THEN 0
    ELSE 10 * DigitsValue(Substr(digits, 0, Len(digits) - 1)) + HexVal(digits[Len(digits)])

IsDecDigit(c) == \E k \in 1..10 : DecDigits[k] = c

\* std::stod on digits[.digits]: the value of the longest such prefix in
\* hundredths, [ok, val]; ~ok is std::invalid_argument, nothing converted
stod(str) ==
    LET int_len == Cardinality({k \in 1..Len(str) : \A j \in 1..k : IsDecDigit(str[j])})
        point == int_len < Len(str) /\ str[int_len + 1] = "."
        rest == IF point THEN SubstrFrom(str, int_len + 1) ELSE <<>>
        frac_len == Cardinality({k \in 1..Len(rest) : \A j \in 1..k : IsDecDigit(rest[j])})
        frac == Substr(rest, 0, IF frac_len > 2 THEN 2 ELSE frac_len)
    IN  IF int_len = 0 /\ frac_len = 0 THEN [ok |-> FALSE, val |-> 0]
        ELSE [ok |-> TRUE,
              val |-> 100 * DigitsValue(Substr(str, 0, int_len))
                      + (IF Len(frac) = 1 THEN 10 * DigitsValue(frac) ELSE DigitsValue(frac))]

MarketThrew(error) == [status |-> "error", error |-> error, ret |-> 0]
MarketReturned(price) == [status |-> "ok", error |-> "", ret |-> price]

\* variant with a defect: the target has to be exceeded
reached_above(sum, amount_to_match) == sum > amount_to_match

\* if (sum >= amount_to_match)
reached(sum, amount_to_match) == sum >= amount_to_match

\* the loop of calculate_buy_market_price from position i on: sum in
\* ten-thousandths; status "end" when the loop ends without a return
RECURSIVE buy_loop(_, _, _, _)
buy_loop(positions, i, sum, amount_to_match) ==
    IF i > Len(positions) THEN [status |-> "end", error |-> "", ret |-> 0]
    ELSE Only({IF ~size.ok \/ ~price.ok THEN MarketThrew("invalid_argument")
               ELSE IF reached(sum + size.val * price.val, amount_to_match)
               THEN MarketReturned(price.val)
               ELSE buy_loop(positions, i + 1, sum + size.val * price.val, amount_to_match) :
                  size \in {stod(positions[i].size)}, price \in {stod(positions[i].price)}})

\* the loop of calculate_sell_market_price: sum in hundredths; the price is
\* parsed only where it is returned
RECURSIVE sell_loop(_, _, _, _)
sell_loop(positions, i, sum, amount_to_match) ==
    IF i > Len(positions) THEN [status |-> "end", error |-> "", ret |-> 0]
    ELSE Only({IF ~size.ok THEN MarketThrew("invalid_argument")
               ELSE IF reached(sum + size.val, amount_to_match)
               THEN Only({IF price.ok THEN MarketReturned(price.val)
                          ELSE MarketThrew("invalid_argument") :
                             price \in {stod(positions[i].price)}})
               ELSE sell_loop(positions, i + 1, sum + size.val, amount_to_match) :
                  size \in {stod(positions[i].size)}})

\* what follows the loop in both: "No match" for FOK, else the last price
after_loop(positions, order_type) ==
    IF order_type = "FOK" THEN MarketThrew("No match")
    ELSE Only({IF price.ok THEN MarketReturned(price.val)
               ELSE MarketThrew("invalid_argument") :
                  price \in {stod(positions[Len(positions)].price)}})

\* amount_to_match in ten-thousandths
calculate_buy_market_price(positions, amount_to_match, order_type) ==
    IF positions = <<>> THEN MarketThrew("No match")
    ELSE Only({IF walked.status # "end" THEN walked ELSE after_loop(positions, order_type) :
                  walked \in {buy_loop(positions, 1, 0, amount_to_match)}})

\* amount_to_match in hundredths
calculate_sell_market_price(positions, amount_to_match, order_type) ==
    IF positions = <<>> THEN MarketThrew("No match")
    ELSE Only({IF walked.status # "end" THEN walked ELSE after_loop(positions, order_type) :
                  walked \in {sell_loop(positions, 1, 0, amount_to_match)}})

\* the longest book of a market-price call
MaxLevels == 3

\* prices and sizes of the levels in hundredths, all multiples of 0.25
LevelPrices == {25, 50, 75}
LevelSizes == {10000, 20000}
Levels == [price : LevelPrices, size : LevelSizes]

\* the amounts asked for in hundredths: dollars for a buy, shares for a sell
BuyAmounts == {2500, 12500, 17500, 100000}
SellAmounts == {10000, 30000, 40000, 1000000}

MarketOrderTypes == {"GTC", "FOK", "GTD", "FAK"}

\* the two ways the book's decimal strings are written: "0.50", "100.00", or
\* without trailing zeros: "0.5", "100"
DecimalStyles == {"fixed", "short"}

FormatHundredths(n, style) ==
    LET whole == to_string(n \div 100)
        tens == HexDigits[((n % 100) \div 10) + 1]
        ones == HexDigits[(n % 10) + 1]
    IN  IF style = "fixed" THEN whole \o <<".", tens, ones>>
        ELSE IF n % 100 = 0 THEN whole
        ELSE IF n % 10 = 0 THEN whole \o <<".", tens>>
        ELSE whole \o <<".", tens, ones>>

\* the OrderSummary entries of a book
PositionsOf(levels, style) ==
    [k \in 1..Len(levels) |->
        [price |-> FormatHundredths(levels[k].price, style),
         size |-> FormatHundredths(levels[k].size, style)]]

Books == UNION {[1..n -> Levels] : n \in 0..MaxLevels}

-----------------------------------------------------------------------------
(* One caller and one client: the client is built, then called MaxCalls - 1   *)
(* times.                                                                     *)

MaxCalls == 3

CredsA == ApiCreds(<<"k","e","y","-","a">>, ZeroSecret, <<"p","a","s","s","-","a">>)
CredsB == ApiCreds(<<"k","e","y","-","b">>, UrlBase64(BytesOf(32, 251, 255)), <<"p","a","s","s","-","b">>)

CredsInputs == {CredsA, CredsB}

TokenInputs == {<<"7","1","3","2","1">>}

TheNow == 1700000000

\* the caller's record after a call
Called(op, out) ==
    [threads EXCEPT ![1] = [@ EXCEPT !.op = op, !.calls = @ + 1, !.status = out.status,
                                     !.error = out.error, !.headers = out.headers,
                                     !.before = client, !.sent_before = Len(http_log),
                                     !.absent = FALSE]]

Call(op, out) ==
    /\ threads[1].calls < MaxCalls
    /\ \E o \in {out} :
          /\ client' = o.client
          /\ http_log' = http_log \o o.requests
          /\ threads' = Called(op, o)
    /\ UNCHANGED <<market_call, rpc, http, rlp_call, tx_call, signers, contexts, sig_log, u256_call,
                   eip_call, keccak_call, l2_call>>

InitClient ==
    /\ rlp_call = NoRlpCall
    /\ tx_call = NoTxCall
    /\ signers = [i \in SignerSlots |-> NoSigner]
    /\ contexts = <<>>
    /\ sig_log = EmptyBag
    /\ u256_call = NoU256Call
    /\ eip_call = NoEipCall
    /\ keccak_call = NoKeccakCall
    /\ l2_call = NoL2Call
    /\ client = NoClient
    /\ threads = NoThreads
    /\ http_log = <<>>
    /\ market_call = NoMarketCall
    /\ rpc = NoRpc
    /\ http = NoHttp

NewClientHost ==
    /\ ~client.live
    /\ Call("ClobClient(host)", Outcome(ClobClient_host, <<>>, Returned0))

NewClientSigner ==
    /\ ~client.live
    /\ Call("ClobClient(host, signer)", Outcome(ClobClient_signer(TheSigner), <<>>, Returned0))

NewClientCreds ==
    /\ ~client.live
    /\ \E creds \in CredsInputs :
          Call("ClobClient(host, signer, creds)",
               Outcome(ClobClient_creds(TheSigner, creds), <<>>, Returned0))

SetApiCreds ==
    /\ client.live
    /\ \E creds \in CredsInputs :
          Call("set_api_creds", Outcome(set_api_creds(client, creds), <<>>, Returned0))

Deauthenticate ==
    /\ client.live
    /\ Call("deauthenticate", Outcome(deauthenticate(client), <<>>, Returned0))

GetTickSize ==
    /\ client.live
    /\ \E token_id \in TokenInputs, response \in Responses :
          Call("get_tick_size",
               get_cached(client, "tick_sizes_", <<"/","t","i","c","k","-","s","i","z","e">>, token_id, response))

GetNegRisk ==
    /\ client.live
    /\ \E token_id \in TokenInputs, response \in Responses :
          Call("get_neg_risk",
               get_cached(client, "neg_risk_", <<"/","n","e","g","-","r","i","s","k">>, token_id, response))

GetFeeRateBps ==
    /\ client.live
    /\ \E token_id \in TokenInputs, response \in Responses :
          Call("get_fee_rate_bps",
               get_cached(client, "fee_rates_", <<"/","f","e","e","-","r","a","t","e">>, token_id, response))

CallApiKeyEndpoint ==
    /\ client.live
    /\ \E name \in {"create_api_key", "derive_api_key"}, response \in Responses :
          Call(name, call_endpoint(client, name, TheNow, 0, "valid", response, "ok"))

CreateOrDeriveApiCreds ==
    /\ client.live
    /\ \E response \in Responses, response2 \in Responses :
          Call("create_or_derive_api_creds",
               call_endpoint(client, "create_or_derive_api_creds", TheNow, 0, "valid",
                             response, response2))

CreateOrder ==
    /\ client.live
    /\ \E name \in {"create_order", "create_market_order"}, price_valid \in PriceChecks :
          Call(name, call_endpoint(client, name, TheNow, 0, price_valid, "ok", "ok"))

CallL2Endpoint ==
    /\ client.live
    /\ \E name \in L2Endpoints, response \in Responses :
          Call(name, call_endpoint(client, name, TheNow, 0, "valid", response, "ok"))

CreateAndPostOrder ==
    /\ client.live
    /\ \E price_valid \in PriceChecks, response \in Responses :
          Call("create_and_post_order",
               call_endpoint(client, "create_and_post_order", TheNow, 0, price_valid,
                             response, "ok"))

\* the order books get_order_book parses out of the answer of /book, the
\* amount asked for, and the order types
ClientBooks == {<<>>, PositionsOf(<<[price |-> 50, size |-> 10000]>>, "fixed")}
ClientAmount == 5000
ClientOrderTypes == {"GTC", "FOK"}

\* ClobClient::calculate_market_price as far as its builder_-> call: the
\* request of get_order_book, and the outcome when the call is not reached
market_price_book(c, response, positions) ==
    IF response # "ok"
    THEN Outcome(c, <<Request(<<"G","E","T">>, <<"/","b","o","o","k">>, nullopt, NoHeaders)>>, Threw("http"))
    ELSE IF positions = <<>>
    THEN Outcome(c, <<Request(<<"G","E","T">>, <<"/","b","o","o","k">>, nullopt, NoHeaders)>>, Threw("No match"))
    ELSE Outcome(c, <<Request(<<"G","E","T">>, <<"/","b","o","o","k">>, nullopt, NoHeaders)>>, Returned0)

\* builder_->calculate_buy_market_price(book.asks, amount, order_type) and its
\* sell counterpart; the functions read no member of the builder
market_price_builder(c, positions, side, amount, order_type) ==
    Only({IF price.status = "ok" THEN Returned0 ELSE Threw(price.error) :
             price \in {IF side = "BUY"
                        THEN calculate_buy_market_price(positions, 100 * amount, order_type)
                        ELSE calculate_sell_market_price(positions, amount, order_type)}})

\* client.calculate_market_price(token_id, side, amount, order_type).  No level
\* is asserted; with builder_ empty the call through it is undefined: the
\* process stops there, or the function runs all the same
CalculateMarketPrice ==
    /\ client.live
    /\ threads[1].calls < MaxCalls
    /\ \E response \in Responses, positions \in ClientBooks, side \in {"BUY", "SELL"},
          order_type \in ClientOrderTypes :
          \E o \in {market_price_book(client, response, positions)},
             r \in {market_price_builder(client, positions, side, ClientAmount, order_type)} :
             /\ client' = client
             /\ http_log' = http_log \o o.requests
             /\ IF o.status # "ok" THEN threads' = Called("calculate_market_price", o)
                ELSE IF client.builder_
                THEN threads' = Called("calculate_market_price", Outcome(client, <<>>, r))
                ELSE \/ threads' = [Called("calculate_market_price",
                                          Outcome(client, <<>>, r)) EXCEPT ![1].absent = TRUE]
                     \/ threads' = [Called("calculate_market_price",
                                          Outcome(client, <<>>,
                                                  [Threw("") EXCEPT !.status = "crashed"]))
                                       EXCEPT ![1].absent = TRUE]
    /\ UNCHANGED <<market_call, rpc, http, rlp_call, tx_call, signers, contexts, sig_log,
                   u256_call, eip_call, keccak_call, l2_call>>

NextClient ==
    \/ CalculateMarketPrice
    \/ NewClientHost
    \/ NewClientSigner
    \/ NewClientCreds
    \/ SetApiCreds
    \/ Deauthenticate
    \/ GetTickSize
    \/ GetNegRisk
    \/ GetFeeRateBps
    \/ CallApiKeyEndpoint
    \/ CreateOrDeriveApiCreds
    \/ CreateOrder
    \/ CallL2Endpoint
    \/ CreateAndPostOrder

SpecClient == InitClient /\ [][NextClient]_vars

-----------------------------------------------------------------------------
(* Two callers and one client.  ClobClient holds no lock and no atomic field, *)
(* so a call is the sequence of its reads and writes of the client's fields,  *)
(* and the calls of two threads interleave at every one of them.  A read      *)
(* through an empty signer_ or creds_ is undefined: the thread stops there,   *)
(* or goes on with what it finds, the empty value here.                       *)

MaxThreadCalls == 1

BuilderOps == {"create_l1_headers", "create_l2_headers"}

FirstStep(op) ==
    CASE op = "create_l1_headers" -> "l1_check"
      [] op = "create_l2_headers" -> "l2_check"
      [] op = "set_api_creds" -> "set_creds"
      [] OTHER -> "reset_signer"

InitThreads ==
    /\ rlp_call = NoRlpCall
    /\ tx_call = NoTxCall
    /\ signers = [i \in SignerSlots |-> NoSigner]
    /\ contexts = <<>>
    /\ sig_log = EmptyBag
    /\ u256_call = NoU256Call
    /\ eip_call = NoEipCall
    /\ keccak_call = NoKeccakCall
    /\ l2_call = NoL2Call
    /\ client \in {ClobClient_host, ClobClient_signer(TheSigner),
                   ClobClient_creds(TheSigner, CredsA)}
    /\ threads = NoThreads
    /\ http_log = <<>>
    /\ market_call = NoMarketCall
    /\ rpc = NoRpc
    /\ http = NoHttp

OnlyThreads ==
    UNCHANGED <<market_call, rpc, http, rlp_call, tx_call, signers, contexts, sig_log, u256_call,
                eip_call, keccak_call, l2_call, client, http_log>>

ThreadsAndClient ==
    UNCHANGED <<market_call, rpc, http, rlp_call, tx_call, signers, contexts, sig_log, u256_call,
                eip_call, keccak_call, l2_call, http_log>>

At(t, pc) == threads[t].pc = pc

Goes(t, rec, pc) == threads' = [threads EXCEPT ![t] = [rec EXCEPT !.pc = pc]]

Ends(t, rec, r) ==
    \E o \in {r} :
       threads' = [threads EXCEPT ![t] = [rec EXCEPT !.pc = "idle", !.status = o.status,
                                                     !.error = o.error, !.headers = o.headers]]

\* a read through signer_ or creds_: of the object when there is one, and
\* when there is none a stop or the empty value
Reads(t, present, rec, pc) ==
    IF present THEN Goes(t, rec, pc)
    ELSE \/ Ends(t, [threads[t] EXCEPT !.absent = TRUE], [Threw("") EXCEPT !.status = "crashed"])
         \/ Goes(t, [rec EXCEPT !.absent = TRUE], pc)

\* a thread enters a call
StartCall(t) ==
    /\ At(t, "idle")
    /\ threads[t].calls < MaxThreadCalls
    /\ \E op \in BuilderOps \cup {"set_api_creds", "deauthenticate"}, creds \in CredsInputs :
          /\ op # "set_api_creds" => creds = CredsA
          /\ threads' = [threads EXCEPT ![t] =
                [NoThread EXCEPT !.pc = FirstStep(op), !.op = op,
                                 !.calls = threads[t].calls + 1, !.before = client,
                                 !.arg = IF op = "set_api_creds" THEN creds ELSE NoCreds]]
    /\ OnlyThreads

\* create_l1_headers: assert_level_1_auth (442)
L1Check(t) ==
    /\ At(t, "l1_check")
    /\ IF assert_level(client, L1) THEN Goes(t, threads[t], "l1_address")
       ELSE Ends(t, threads[t], Threw("L1 authentication required"))
    /\ OnlyThreads

\* signer_->address() (452)
L1ReadAddress(t) ==
    /\ At(t, "l1_address")
    /\ Reads(t, ~client.signer_.null,
             [threads[t] EXCEPT !.address = client.signer_.address_], "l1_chain_id")
    /\ OnlyThreads

\* signer_->get_chain_id() (462)
L1ReadChainId(t) ==
    /\ At(t, "l1_chain_id")
    /\ Reads(t, ~client.signer_.null,
             [threads[t] EXCEPT !.chain_id = client.signer_.chain_id_], "l1_sign")
    /\ OnlyThreads

\* signer_->sign_typed_data(...) (476)
L1Sign(t) ==
    /\ At(t, "l1_sign")
    /\ Reads(t, ~client.signer_.null,
             [threads[t] EXCEPT !.private_key = client.signer_.private_key_], "l1_return")
    /\ OnlyThreads

\* signer_->address() (479) and the return
L1Return(t) ==
    /\ At(t, "l1_return")
    /\ LET r == l1_headers_of(threads[t].address, threads[t].chain_id,
                              threads[t].private_key, client.signer_.address_, TheNow, 0)
       IN  IF ~client.signer_.null THEN Ends(t, threads[t], r)
           ELSE \/ Ends(t, [threads[t] EXCEPT !.absent = TRUE],
                        [Threw("") EXCEPT !.status = "crashed"])
                \/ Ends(t, [threads[t] EXCEPT !.absent = TRUE], r)
    /\ OnlyThreads

\* create_l2_headers: assert_level_2_auth (494)
L2Check(t) ==
    /\ At(t, "l2_check")
    /\ IF assert_level(client, L2) THEN Goes(t, threads[t], "l2_secret")
       ELSE Ends(t, threads[t], Threw("L2 authentication required"))
    /\ OnlyThreads

\* creds_->api_secret (509)
L2ReadSecret(t) ==
    /\ At(t, "l2_secret")
    /\ Reads(t, client.creds_.has_value,
             [threads[t] EXCEPT !.api_secret = client.creds_.api_secret], "l2_address")
    /\ OnlyThreads

\* signer_->address() (562)
L2ReadAddress(t) ==
    /\ At(t, "l2_address")
    /\ Reads(t, ~client.signer_.null,
             [threads[t] EXCEPT !.address = client.signer_.address_], "l2_api_key")
    /\ OnlyThreads

\* creds_->api_key (567)
L2ReadApiKey(t) ==
    /\ At(t, "l2_api_key")
    /\ Reads(t, client.creds_.has_value,
             [threads[t] EXCEPT !.api_key = client.creds_.api_key], "l2_return")
    /\ OnlyThreads

\* creds_->api_passphrase (568) and the return
L2Return(t) ==
    /\ At(t, "l2_return")
    /\ LET r == l2_headers_of(threads[t].api_secret, threads[t].address,
                              threads[t].api_key, client.creds_.api_passphrase,
                              TheNow, <<"G","E","T">>, <<"/","d","a","t","a","/","o","r","d","e","r","s">>, <<>>)
       IN  IF client.creds_.has_value THEN Ends(t, threads[t], r)
           ELSE \/ Ends(t, [threads[t] EXCEPT !.absent = TRUE],
                        [Threw("") EXCEPT !.status = "crashed"])
                \/ Ends(t, [threads[t] EXCEPT !.absent = TRUE], r)
    /\ OnlyThreads

\* set_api_creds: creds_ = creds (737)
SetCredsStore(t) ==
    /\ At(t, "set_creds")
    /\ client' = [client EXCEPT !.creds_ = threads[t].arg]
    /\ Goes(t, threads[t], "set_mode")
    /\ ThreadsAndClient

\* mode_ = get_client_mode() (738)
SetCredsMode(t) ==
    /\ At(t, "set_mode")
    /\ client' = [client EXCEPT !.mode_ = get_client_mode(client)]
    /\ Ends(t, threads[t], Returned0)
    /\ ThreadsAndClient

\* deauthenticate: signer_.reset() (689)
ResetSigner(t) ==
    /\ At(t, "reset_signer")
    /\ client' = [client EXCEPT !.signer_ = NullSigner]
    /\ Goes(t, threads[t], "reset_creds")
    /\ ThreadsAndClient

\* creds_.reset() (690)
ResetCreds(t) ==
    /\ At(t, "reset_creds")
    /\ client' = [client EXCEPT !.creds_ = NoCreds]
    /\ Goes(t, threads[t], "reset_builder")
    /\ ThreadsAndClient

\* builder_.reset() (691)
ResetBuilder(t) ==
    /\ At(t, "reset_builder")
    /\ client' = [client EXCEPT !.builder_ = FALSE]
    /\ Goes(t, threads[t], "reset_mode")
    /\ ThreadsAndClient

\* mode_ = AuthLevel::L0 (694)
ResetMode(t) ==
    /\ At(t, "reset_mode")
    /\ client' = [client EXCEPT !.mode_ = L0]
    /\ Goes(t, threads[t], "clear_caches")
    /\ ThreadsAndClient

\* the three clear() (697-699)
ClearCaches(t) ==
    /\ At(t, "clear_caches")
    /\ client' = [client EXCEPT !.tick_sizes_ = {}, !.neg_risk_ = {}, !.fee_rates_ = {}]
    /\ Ends(t, threads[t], Returned0)
    /\ ThreadsAndClient

NextThreads ==
    \E t \in Threads :
        \/ StartCall(t)
        \/ L1Check(t)
        \/ L1ReadAddress(t)
        \/ L1ReadChainId(t)
        \/ L1Sign(t)
        \/ L1Return(t)
        \/ L2Check(t)
        \/ L2ReadSecret(t)
        \/ L2ReadAddress(t)
        \/ L2ReadApiKey(t)
        \/ L2Return(t)
        \/ SetCredsStore(t)
        \/ SetCredsMode(t)
        \/ ResetSigner(t)
        \/ ResetCreds(t)
        \/ ResetBuilder(t)
        \/ ResetMode(t)
        \/ ClearCaches(t)

SpecThreads == InitThreads /\ [][NextThreads]_vars

-----------------------------------------------------------------------------
(* Reference forms, written without the codec's loops *)

\* the shortest big-endian form of a length (below 2^24, as every length here is)
MinimalBigEndian(n) ==
    IF n = 0 THEN <<>>
    ELSE IF n < 256 THEN <<n>>
    ELSE IF n < 65536 THEN <<n \div 256, n % 256>>
    ELSE <<n \div 65536, (n \div 256) % 256, n % 256>>

\* the number of leading zero bytes of a byte string
LeadingZeros(b) ==
    IF \A i \in 1..Len(b) : b[i] = 0 THEN Len(b)
    ELSE (CHOOSE i \in 1..Len(b) : b[i] # 0 /\ \A j \in 1..(i - 1) : b[j] = 0) - 1

\* a byte string without its leading zero bytes
StripZeros(b) == SubstrFrom(b, LeadingZeros(b))

\* the concatenation of a sequence of byte strings, front to back
RECURSIVE Concat(_)
Concat(ss) == IF ss = <<>> THEN <<>> ELSE Head(ss) \o Concat(Tail(ss))

\* the number a big-endian byte string of at most three bytes stands for
BigEndianValue(b) ==
    CASE Len(b) = 0 -> 0
      [] Len(b) = 1 -> b[1]
      [] Len(b) = 2 -> b[1] * 256 + b[2]
      [] OTHER -> b[1] * 65536 + b[2] * 256 + b[3]

\* RLP decoding: the length of the header of the item that starts at b[i], and
\* the length of its content
RlpHeaderLen(b, i) ==
    IF b[i] < 128 THEN 0
    ELSE IF b[i] <= 183 THEN 1
    ELSE IF b[i] <= 191 THEN 1 + (b[i] - 183)
    ELSE IF b[i] <= 247 THEN 1
    ELSE 1 + (b[i] - 247)

RlpContentLen(b, i) ==
    IF b[i] < 128 THEN 1
    ELSE IF b[i] <= 183 THEN b[i] - 128
    ELSE IF b[i] <= 191 THEN BigEndianValue(Substr(b, i, b[i] - 183))
    ELSE IF b[i] <= 247 THEN b[i] - 192
    ELSE BigEndianValue(Substr(b, i, b[i] - 247))

\* the items encoded one after the other in b, from b[i] on
RECURSIVE RlpItems(_, _)
RlpItems(b, i) ==
    IF i > Len(b) THEN <<>>
    ELSE LET size == RlpHeaderLen(b, i) + RlpContentLen(b, i)
         IN  <<Substr(b, i - 1, size)>> \o RlpItems(b, i + size)

\* an encoded list: a list header whose length is that of the rest
RlpIsList(enc) ==
    /\ enc # <<>> /\ enc[1] >= 192
    /\ Len(enc) = RlpHeaderLen(enc, 1) + RlpContentLen(enc, 1)

\* the items of an encoded list
RlpListItems(enc) == RlpItems(SubstrFrom(enc, RlpHeaderLen(enc, 1)), 1)

\* the byte string an encoded string item stands for
RlpStringValue(item) == SubstrFrom(item, RlpHeaderLen(item, 1))

RlpIsString(item) ==
    /\ item # <<>> /\ item[1] < 192
    /\ Len(item) = RlpHeaderLen(item, 1) + RlpContentLen(item, 1)

\* the bytes a string of hex digits stands for, "0x" or not, a lone leading
\* digit being a byte of its own
HexPairs(h) == [k \in 1..(Len(h) \div 2) |-> 16 * HexVal(h[2 * k - 1]) + HexVal(h[2 * k])]

HexBytes(hex) ==
    LET h == IF Len(hex) >= 2 /\ hex[1] = "0" /\ hex[2] \in {"x", "X"}
             THEN SubstrFrom(hex, 2) ELSE hex
    IN  HexPairs(IF Len(h) % 2 = 1 THEN <<"0">> \o h ELSE h)

-----------------------------------------------------------------------------
(* Claims about the codec, under SpecRlp *)

\* C4: for every uint64 n, encode_integer(n) is encode_string of the shortest
\* big-endian form of n, whose first byte is not zero; for n = 0 that form is
\* empty and the result is the single byte 0x80, never 0x00.
C4_EncodeIntegerMinimal ==
    (rlp_call.fn = "encode_integer" /\ rlp_call.done) =>
        LET minimal == StripZeros(rlp_call.value)
        IN  /\ minimal # <<>> => minimal[1] # 0
            /\ rlp_call.ret = rlp_encode_string(minimal)
            /\ rlp_call.ret # <<0>>
            /\ rlp_call.value = U64Zero => rlp_call.ret = <<128>>
            /\ Len(minimal) > 1 => rlp_call.ret = <<128 + Len(minimal)>> \o minimal

\* encode_integer has returned for 2^63, whose low seven bytes are zero
C4_Witness ==
    /\ rlp_call.fn = "encode_integer" /\ rlp_call.done
    /\ rlp_call.value = U64Of(8, 128, 0)
    /\ rlp_call.ret = <<136, 128, 0, 0, 0, 0, 0, 0, 0>>

\* C5: encode_string(b) is b itself when b is one byte below 0x80; 0x80 + len(b)
\* and b when len(b) < 56; else 0xb7 + n, the n bytes of len(b), and b.
C5_EncodeStringShape ==
    (rlp_call.fn = "encode_string" /\ rlp_call.done) =>
        LET b == rlp_call.data
            n == Len(b)
        IN  IF n = 1 /\ b[1] < 128 THEN rlp_call.ret = b
            ELSE IF n < 56 THEN rlp_call.ret = <<128 + n>> \o b
            ELSE rlp_call.ret =
                    <<183 + Len(MinimalBigEndian(n))>> \o MinimalBigEndian(n) \o b

\* encode_string has returned for a string whose length takes two bytes
C5_Witness ==
    /\ rlp_call.fn = "encode_string" /\ rlp_call.done
    /\ Len(rlp_call.data) = 256
    /\ SubstrFrom(rlp_call.ret, Len(rlp_call.ret) - 256) = rlp_call.data
    /\ Substr(rlp_call.ret, 0, 3) = <<185, 1, 0>>

\* C6: encode_list returns the items, unaltered and in order, after 0xc0 + len
\* when the payload is shorter than 56 bytes, else after 0xf7 + n and the n
\* bytes of the payload length.
C6_EncodeListShape ==
    (rlp_call.fn = "encode_list" /\ rlp_call.done) =>
        LET payload == Concat(rlp_call.items)
            n == Len(payload)
        IN  IF n < 56 THEN rlp_call.ret = <<192 + n>> \o payload
            ELSE rlp_call.ret =
                    <<247 + Len(MinimalBigEndian(n))>> \o MinimalBigEndian(n) \o payload

\* encode_list has returned for three items whose payload is exactly 56 bytes
C6_Witness ==
    /\ rlp_call.fn = "encode_list" /\ rlp_call.done
    /\ Len(rlp_call.items) = 3
    /\ Len(Concat(rlp_call.items)) = 56
    /\ Substr(rlp_call.ret, 0, 2) = <<248, 56>>

-----------------------------------------------------------------------------
(* Claims about Transaction::sign, under SpecTx *)

\* the items of the payload hashed, and of the payload returned
UnsignedItems == RlpListItems(tx_call.out.unsigned_tx)
SignedItems == RlpListItems(tx_call.out.signed_tx)

\* chain_id * 2 + 35 + recid as an integer: nine bytes hold it for every chain id
EIP155V(chain_id, recid) == StripZeros(MulAdd(<<0>> \o chain_id, 2, 35 + recid).val)

\* C1: for every transaction signed, whatever its chain id, the v item of the
\* signed payload is the integer chainId * 2 + 35 + recoveryId, recoveryId (0 or
\* 1) being that of the signature over the digest of the unsigned payload.
C1_VIsEIP155 ==
    tx_call.out.status = "signed" =>
        /\ tx_call.out.recid \in {0, 1}
        /\ tx_call.out.recid =
              secp256k1_ecdsa_sign_recoverable(HexBytes(tx_call.private_key),
                  keccak256(tx_call.out.unsigned_tx), 0).recid
        /\ RlpIsList(tx_call.out.signed_tx)
        /\ Len(SignedItems) = 9
        /\ RlpStringValue(SignedItems[7]) = EIP155V(tx_call.tx.chain_id, tx_call.out.recid)

\* the part of C1 the code keeps: below 2^63 - 18 the sum fits 64 bits
C1_VIsEIP155WhenItFits ==
    (tx_call.out.status = "signed"
        /\ BytesLess(tx_call.tx.chain_id, <<127, 255, 255, 255, 255, 255, 255, 238>>)) =>
        RlpStringValue(SignedItems[7]) = EIP155V(tx_call.tx.chain_id, tx_call.out.recid)

\* chain 137 signed: v is 309 or 310
C1_Witness ==
    /\ tx_call.out.status = "signed"
    /\ tx_call.tx.chain_id = U64FromNat(POLYGON)
    /\ RlpStringValue(SignedItems[7]) = <<1, 53 + tx_call.out.recid>>

\* C2: in the unsigned and in the signed payload, gasPrice and value are encoded
\* without leading zero bytes; a field given as "0x0" or "0x00" is encoded as the
\* empty string, 0x80, never as a zero byte.
C2_NumericInputsStripped ==
    tx_call.out.status = "signed" =>
        \A items \in {UnsignedItems, SignedItems} :
            /\ RlpStringValue(items[2]) = StripZeros(HexBytes(tx_call.tx.gas_price))
            /\ RlpStringValue(items[5]) = StripZeros(HexBytes(tx_call.tx.value))
            /\ tx_call.tx.gas_price \in {<<"0","x","0">>, <<"0","x","0","0">>}
                  => items[2] = <<128>>
            /\ tx_call.tx.value \in {<<"0","x","0">>, <<"0","x","0","0">>}
                  => items[5] = <<128>>

\* the part of C2 the code keeps: value, which it converts with
\* strip_leading_zeros, in both payloads
C2_ValueStripped ==
    tx_call.out.status = "signed" =>
        \A items \in {UnsignedItems, SignedItems} :
            /\ RlpStringValue(items[5]) = StripZeros(HexBytes(tx_call.tx.value))
            /\ tx_call.tx.value \in {<<"0","x","0">>, <<"0","x","0","0">>}
                  => items[5] = <<128>>

\* value "0x000100" signed: the item is the two bytes 01 00
C2_Witness ==
    /\ tx_call.out.status = "signed"
    /\ tx_call.tx.value = <<"0","x","0","0","0","1","0","0">>
    /\ UnsignedItems[5] = <<130, 1, 0>> /\ SignedItems[5] = <<130, 1, 0>>

\* C3: the payload hashed is the list of exactly nine items nonce, gasPrice,
\* gasLimit, to, value, data, chainId, empty string, empty string: the chain id
\* is the seventh and the last two are 0x80, for every transaction.
C3_UnsignedPayloadNineItems ==
    tx_call.out.unsigned_tx # <<>> =>
        /\ RlpIsList(tx_call.out.unsigned_tx)
        /\ Len(UnsignedItems) = 9
        /\ \A k \in 1..9 : RlpIsString(UnsignedItems[k])
        /\ RlpStringValue(UnsignedItems[1]) = StripZeros(tx_call.tx.nonce)
        /\ StripZeros(RlpStringValue(UnsignedItems[2]))
              = StripZeros(HexBytes(tx_call.tx.gas_price))
        /\ RlpStringValue(UnsignedItems[3]) = StripZeros(tx_call.tx.gas_limit)
        /\ RlpStringValue(UnsignedItems[4]) = HexBytes(tx_call.tx.to)
        /\ StripZeros(RlpStringValue(UnsignedItems[5]))
              = StripZeros(HexBytes(tx_call.tx.value))
        /\ RlpStringValue(UnsignedItems[6]) = HexBytes(tx_call.tx.data)
        /\ RlpStringValue(UnsignedItems[7]) = StripZeros(tx_call.tx.chain_id)
        /\ UnsignedItems[8] = <<128>>
        /\ UnsignedItems[9] = <<128>>

\* an approval on chain 137 was hashed: the seventh item is 0x81 0x89
C3_Witness ==
    /\ tx_call.out.status = "signed"
    /\ tx_call.tx.data # <<"0","x">>
    /\ Len(UnsignedItems) = 9
    /\ UnsignedItems[7] = <<129, 137>>
    /\ UnsignedItems[8] = <<128>> /\ UnsignedItems[9] = <<128>>

-----------------------------------------------------------------------------
(* Claims about Signer, under SpecSigner *)

\* a key string as the interface describes it: exactly 64 hexadecimal digits,
\* with or without "0x", of a number k with 0 < k < n
ValidKeyInput(hex) ==
    LET h == IF Substr(hex, 0, 2) = <<"0", "x">> THEN SubstrFrom(hex, 2) ELSE hex
    IN  /\ Len(h) = 64
        /\ \A k \in 1..64 : IsHexDigit(h[k])
        /\ HexPairs(h) # [k \in 1..32 |-> 0]
        /\ BytesLess(HexPairs(h), CurveOrder)

Constructed(i) == signers[i].state \in {"live", "destroyed"}

\* C7: a Signer comes to exist only from a key string of exactly 32 bytes (64
\* hexadecimal digits, "0x" or not) that stands for k with 0 < k < n; every
\* other key string makes the constructor fail.
C7_ConstructorAcceptsOnlyValidKeys ==
    \A i \in SignerSlots :
        /\ Constructed(i) => ValidKeyInput(signers[i].input)
        /\ signers[i].state = "failed" => ~ValidKeyInput(signers[i].input)

\* C8: once a Signer is destroyed, the 32 bytes of its private_key_ are zero.
C8_KeyZeroedOnRelease ==
    \A i \in SignerSlots : signers[i].state = "destroyed" => signers[i].private_key_ = NoKey

-----------------------------------------------------------------------------
(* Claims about eip712::encode_uint256, under SpecU256 *)

\* C10: for a decimal string x below 2^256 the result is 32 bytes that stand,
\* big-endian, for the number x, and it is what the 64-bit form returns when x
\* fits 64 bits; from 2^256 on the call fails.
C10_EncodeUint256Decimal ==
    u256_call.status # "none" =>
        LET x == DecNormal(u256_call.value)
        IN  IF DecLess(x, TwoPow256)
            THEN /\ u256_call.status = "ok"
                 /\ Len(u256_call.ret) = 32
                 /\ DecimalOfBytes(u256_call.ret) = x
                 /\ DecLess(x, TwoPow64) =>
                       u256_call.ret = encode_uint256_u64(stoull(u256_call.value).val)
            ELSE u256_call.status = "error"

\* 2^64, the first number past the 64-bit form, was encoded: byte 24 is 1
C10_Witness ==
    /\ u256_call.value = TwoPow64
    /\ u256_call.status = "ok"
    /\ u256_call.ret = [k \in 1..32 |-> IF k = 24 THEN 1 ELSE 0]

-----------------------------------------------------------------------------
(* Claims about namespace eip712, under SpecEip712 *)

EipDone(fn) == eip_call.fn = fn /\ eip_call.status # "none"

IsDecimal(s) == \A k \in 1..Len(s) : s[k] \in {DecDigits[d] : d \in 1..10}

\* a tag of the typed-data grammar: string, bytes, address, uint or int with a
\* width written in digits, or a struct of the schema
RecognizedTag(type, types) ==
    \/ type \in {<<"s","t","r","i","n","g">>, <<"b","y","t","e","s">>, <<"a","d","d","r","e","s","s">>}
    \/ StartsWith(type, <<"u","i","n","t">>) /\ IsDecimal(SubstrFrom(type, 4))
    \/ StartsWith(type, <<"i","n","t">>) /\ IsDecimal(SubstrFrom(type, 3))
    \/ type \in DOMAIN types

\* C11: encode_value throws for every tag that is not string, bytes, address,
\* uintN, intN or a struct of the schema: no such tag is encoded.
C11_UnknownTagsRejected ==
    (EipDone("encode_value") /\ ~RecognizedTag(eip_call.type, eip_call.types)) =>
        eip_call.status = "error"

\* a declared field of the struct, or of a struct nested in it, has no member
RECURSIVE MissingField(_, _, _)
MissingField(type, data, types) ==
    /\ type \in DOMAIN types
    /\ data.kind = "object"
    /\ \E i \in 1..Len(types[type]) :
          LET field == types[type][i]
          IN  \/ field.name \notin DOMAIN data.obj
              \/ /\ field.type \in DOMAIN types
                 /\ MissingField(field.type, data.obj[field.name], types)

\* C12: hash_struct throws whenever a declared field is absent from the values;
\* it returns no hash then.
C12_MissingFieldFails ==
    (EipDone("hash_struct")
        /\ MissingField(eip_call.primary_type, eip_call.data, eip_call.types)) =>
        eip_call.status = "error"

\* "T(type1 name1,type2 name2,...)" for the fields as declared
CanonicalTypeString(name, fields) ==
    name \o <<"(">>
         \o Concat([i \in 1..Len(fields) |->
                       (IF i = 1 THEN <<>> ELSE <<",">>)
                           \o fields[i].type \o <<" ">> \o fields[i].name])
         \o <<")">>

\* the k-th 32 bytes of an encoding
Word(ret, k) == Substr(ret, 32 * (k - 1), 32)

\* C13: type_hash is the Keccak-256 of "T(type1 name1,...)" with the fields in
\* declared order; encode_struct emits the type hash and then the value of
\* every field in that order; a type the schema lacks is an error in both.
C13_TypeHashDeclaredOrder ==
    /\ EipDone("type_hash") =>
          IF eip_call.primary_type \in DOMAIN eip_call.types
          THEN /\ eip_call.status = "ok"
               /\ eip_call.ret = keccak256(StringBytes(CanonicalTypeString(
                                     eip_call.primary_type,
                                     eip_call.types[eip_call.primary_type])))
          ELSE eip_call.status = "error" /\ eip_call.error = "Type not found"
    /\ (EipDone("encode_struct") /\ eip_call.primary_type \notin DOMAIN eip_call.types) =>
          (eip_call.status = "error" /\ eip_call.error = "Type not found")
    /\ (EipDone("encode_struct") /\ eip_call.status = "ok"
           /\ ~MissingField(eip_call.primary_type, eip_call.data, eip_call.types)) =>
          LET fields == eip_call.types[eip_call.primary_type]
          IN  /\ Len(eip_call.ret) = 32 * (1 + Len(fields))
              /\ Word(eip_call.ret, 1) = keccak256(StringBytes(CanonicalTypeString(
                                            eip_call.primary_type, fields)))
              /\ \A i \in 1..Len(fields) :
                    Word(eip_call.ret, i + 1)
                       = encode_value(fields[i].type, eip_call.data.obj[fields[i].name],
                                      eip_call.types, eip_call.ub).ret

\* the type hash of Pair, declared zeta before alpha, was computed, and a Mail
\* from Cow to Bob was encoded: four words
C13_Witness ==
    \/ /\ EipDone("type_hash") /\ eip_call.status = "ok"
       /\ eip_call.primary_type = <<"P","a","i","r">>
       /\ eip_call.ret = keccak256(StringBytes(<<"P","a","i","r","(","u","i","n","t","2","5","6"," ","z","e","t","a",",","b","y","t","e","s"," ","a","l","p","h","a",")">>))
       /\ eip_call.ret # keccak256(StringBytes(<<"P","a","i","r","(","b","y","t","e","s"," ","a","l","p","h","a",",","u","i","n","t","2","5","6"," ","z","e","t","a",")">>))
    \/ /\ EipDone("encode_struct") /\ eip_call.status = "ok"
       /\ eip_call.data = Mail(Cow, Bob)
       /\ Len(eip_call.ret) = 128
       /\ Word(eip_call.ret, 2) # Word(eip_call.ret, 3)

\* the members of a domain in the fixed order
PresentKeys(domain) ==
    LET Present(key) == key \in DOMAIN domain
    IN  SelectSeq(DomainKeys, Present)

DomainFieldDecl(key) ==
    CASE key = "name" -> <<"s","t","r","i","n","g"," ","n","a","m","e">>
      [] key = "version" -> <<"s","t","r","i","n","g"," ","v","e","r","s","i","o","n">>
      [] key = "chainId" -> <<"u","i","n","t","2","5","6"," ","c","h","a","i","n","I","d">>
      [] key = "verifyingContract" -> <<"a","d","d","r","e","s","s"," ","v","e","r","i","f","y","i","n","g","C","o","n","t","r","a","c","t">>
      [] OTHER -> <<"b","y","t","e","s","3","2"," ","s","a","l","t">>

\* the 32 bytes of a member: the hash of a string, the number big-endian, the
\* address after 12 zero bytes, the salt as decoded
DomainWord(key, v) ==
    CASE key \in {"name", "version"} -> keccak256(StringBytes(v.str))
      [] key = "chainId" -> [k \in 1..24 |-> 0] \o v.num
      [] key = "verifyingContract" -> [k \in 1..12 |-> 0] \o HexBytes(v.str)
      [] OTHER -> eip712_hex_to_bytes(v.str).bytes

SaltLength(domain) == Len(eip712_hex_to_bytes(domain["salt"].str).bytes)

HasNonHex(hex) ==
    LET h == IF Substr(hex, 0, 2) \in {<<"0", "x">>, <<"0", "X">>}
             THEN SubstrFrom(hex, 2) ELSE hex
    IN  \E k \in 1..Len(h) : ~IsHexDigit(h[k])

\* C15: a hex string with a character that is no hexadecimal digit is never
\* decoded to bytes: hex_to_bytes throws.
C15_NonHexRejected ==
    (EipDone("hex_to_bytes") /\ HasNonHex(eip_call.hex)) => eip_call.status = "error"

-----------------------------------------------------------------------------
(* Claims about keccak::hash256, under SpecKeccak *)

\* the k-th block of 136 message bytes
MessageBlock(data, k) == Substr(data, 136 * (k - 1), 136)

\* the last block: the n mod 136 bytes left, 0x01 right after them, zeros, and
\* 0x80 ORed into byte 135
PaddedBlock(data) ==
    LET r == Len(data) % 136
        tail == SubstrFrom(data, Len(data) - r)
    IN  [j \in 1..136 |->
            IF j <= r THEN tail[j]
            ELSE IF j = r + 1 /\ j = 136 THEN 129
            ELSE IF j = r + 1 THEN 1
            ELSE IF j = 136 THEN 128
            ELSE 0]

\* the state after the first k blocks
RECURSIVE SpongeState(_, _)
SpongeState(blocks, k) ==
    IF k = 0 THEN [i \in 1..200 |-> 0]
    ELSE keccakf(keccak_xor_block(SpongeState(blocks, k - 1), blocks[k]))

\* C16: for n message bytes the permutation runs n \div 136 + 1 times, once
\* after each full block and once after the padded last block, which holds the
\* n mod 136 bytes left, 0x01, zeros and 0x80 ORed into byte 135; the digest
\* is the first 32 bytes of the state.
C16_PaddingAndPermutations ==
    keccak_call.status = "ok" =>
        LET n == Len(keccak_call.data)
            full == n \div 136
        IN  /\ keccak_call.permutations = full + 1
            /\ Len(keccak_call.blocks) = full + 1
            /\ \A k \in 1..full : keccak_call.blocks[k] = MessageBlock(keccak_call.data, k)
            /\ keccak_call.blocks[full + 1] = PaddedBlock(keccak_call.data)
            /\ keccak_call.st = SpongeState(keccak_call.blocks, full + 1)
            /\ keccak_call.hash = Substr(keccak_call.st, 0, 32)
            /\ Len(keccak_call.hash) = 32

\* a message of 271 = 136 + 135 bytes was hashed: two permutations, and the
\* last byte of the second block is 0x81
C16_Witness ==
    /\ keccak_call.status = "ok"
    /\ Len(keccak_call.data) = 271
    /\ keccak_call.permutations = 2
    /\ keccak_call.blocks[2][135] = 255
    /\ keccak_call.blocks[2][136] = 129

-----------------------------------------------------------------------------
(* The L2 signature header *)

L2Done == l2_call.status = "ok"

\* the bytes a secret stands for: the ones whose URL-safe base64 text it is
SecretOf(api_secret) ==
    CHOOSE b \in SecretBytes :
        \/ api_secret = UrlBase64(b)
        \/ api_secret = UrlBase64Digits(b)

L2Message == to_string(l2_call.now) \o l2_call.method \o l2_call.request_path \o l2_call.body

\* C17: the POLY_SIGNATURE header is the URL-safe base64 text, '=' kept, of
\* HMAC-SHA256 keyed by the bytes the secret decodes to over timestamp,
\* method, path and body put together without separators; it holds no '+'
\* and no '/' and ends with its '='.
C17_L2SignatureOfDecodedSecret ==
    L2Done =>
        LET signature == l2_call.headers.POLY_SIGNATURE
        IN  /\ signature = UrlBase64(hmac_sha256(SecretOf(client.creds_.api_secret),
                                                 StringBytes(L2Message)))
            /\ \A k \in 1..Len(signature) : signature[k] \notin {"+", "/"}
            /\ signature[Len(signature)] = "="

\* the same for secrets of no more than the 256 bytes that are read
C17_L2SignatureUpTo256 ==
    (L2Done /\ Len(SecretOf(client.creds_.api_secret)) <= MaxDecodedSecret) =>
        LET signature == l2_call.headers.POLY_SIGNATURE
        IN  /\ signature = UrlBase64(hmac_sha256(SecretOf(client.creds_.api_secret),
                                                 StringBytes(L2Message)))
            /\ \A k \in 1..Len(signature) : signature[k] \notin {"+", "/"}
            /\ signature[Len(signature)] = "="

\* the all-zero secret of the tests with the message "1GET/", and a signature
\* in which a '+' or a '/' of the standard alphabet was replaced
C17_ZeroSecretSigned ==
    /\ L2Done
    /\ client.creds_.api_secret = ZeroSecret
    /\ L2Message = <<"1","G","E","T","/">>
    /\ Len(l2_call.headers.POLY_SIGNATURE) = 44

C17_UrlSafeReplaced ==
    /\ L2Done
    /\ \E k \in 1..Len(l2_call.headers.POLY_SIGNATURE) :
          l2_call.headers.POLY_SIGNATURE[k] \in {"-", "_"}
    /\ \E k \in 1..Len(client.creds_.api_secret) : client.creds_.api_secret[k] \in {"-", "_"}
    /\ Len(client.creds_.api_secret) % 4 # 0

-----------------------------------------------------------------------------
(* The client's level of authentication *)

\* the last call left the client as it was and handed no request to the
\* HTTP client
NothingSentNothingChanged ==
    /\ client = threads[1].before
    /\ Len(http_log) = threads[1].sent_before

C19_L1Reached ==
    /\ threads[1].op = "create_api_key"
    /\ threads[1].before.mode_ = L0
    /\ threads[1].before.creds_.has_value
    /\ threads[1].status = "error"

C20_SetCredsReached ==
    /\ threads[1].op = "set_api_creds"
    /\ threads[1].before.mode_ = L1
    /\ ~threads[1].before.creds_.has_value
    /\ client.mode_ = L2

-----------------------------------------------------------------------------
(* The header builders under concurrent calls *)

BuilderDone(t) ==
    /\ threads[t].pc = "idle"
    /\ threads[t].op \in BuilderOps
    /\ threads[t].status # "none"

\* the headers create_l1_headers gives for one signer, and the headers
\* create_l2_headers gives for one signer and one set of credentials
L1HeadersFor(signer) ==
    l1_headers_of(signer.address_, signer.chain_id_, signer.private_key_, signer.address_,
                  TheNow, 0)

L2HeadersFor(signer, creds) ==
    l2_headers_of(creds.api_secret, signer.address_, creds.api_key, creds.api_passphrase,
                  TheNow, <<"G","E","T">>, <<"/","d","a","t","a","/","o","r","d","e","r","s">>, <<>>)

ConsistentHeaders(t) ==
    IF threads[t].op = "create_l1_headers"
    THEN threads[t].headers = L1HeadersFor(TheSigner).headers
    ELSE \E creds \in CredsInputs : threads[t].headers = L2HeadersFor(TheSigner, creds).headers

\* C18: under every interleaving with other builder calls, set_api_creds and
\* deauthenticate, a builder call has read no absent signer and no absent
\* credentials, and it either failed its level check or returned the
\* headers of one signer and one set of credentials.
C18_BuildersSafeUnderConcurrency ==
    \A t \in Threads :
        BuilderDone(t) =>
            /\ ~threads[t].absent
            /\ \/ /\ threads[t].status = "error"
                  /\ threads[t].error \in {"L1 authentication required",
                                            "L2 authentication required"}
               \/ /\ threads[t].status = "ok"
                  /\ ConsistentHeaders(t)

\* the same for builder calls that run with builder calls only
C18_BuildersAmongThemselves ==
    (\A t \in Threads : threads[t].op \in BuilderOps \cup {"none"}) =>
        C18_BuildersSafeUnderConcurrency

\* a builder call returned the key of one set of credentials with the
\* signature under the secret of another
C18_MixedCredentials ==
    \E t \in Threads :
        /\ BuilderDone(t)
        /\ threads[t].status = "ok"
        /\ ~threads[t].absent
        /\ ~ConsistentHeaders(t)

-----------------------------------------------------------------------------
(* A market-price calculation on its own: the initial state holds one call.  *)

InitMarket ==
    /\ rlp_call = NoRlpCall
    /\ tx_call = NoTxCall
    /\ signers = [i \in SignerSlots |-> NoSigner]
    /\ contexts = <<>>
    /\ sig_log = EmptyBag
    /\ u256_call = NoU256Call
    /\ eip_call = NoEipCall
    /\ keccak_call = NoKeccakCall
    /\ l2_call = NoL2Call
    /\ client = NoClient
    /\ threads = NoThreads
    /\ http_log = <<>>
    /\ \E levels \in Books, style \in DecimalStyles, side \in {"BUY", "SELL"},
          order_type \in MarketOrderTypes :
          \E amount \in (IF side = "BUY" THEN BuyAmounts ELSE SellAmounts) :
             market_call = [status |-> "none", side |-> side, levels |-> levels,
                            positions |-> PositionsOf(levels, style),
                            amount_to_match |-> amount, order_type |-> order_type,
                            error |-> "", ret |-> 0]
    /\ rpc = NoRpc
    /\ http = NoHttp

CalculateBuyMarketPrice ==
    /\ market_call.status = "none"
    /\ market_call.side = "BUY"
    /\ \E o \in {calculate_buy_market_price(market_call.positions,
                       100 * market_call.amount_to_match, market_call.order_type)} :
          market_call' = [market_call EXCEPT !.status = o.status, !.error = o.error,
                                             !.ret = o.ret]
    /\ UNCHANGED <<rpc, http, rlp_call, tx_call, signers, contexts, sig_log, u256_call,
                   eip_call, keccak_call, l2_call, client, threads, http_log>>

CalculateSellMarketPrice ==
    /\ market_call.status = "none"
    /\ market_call.side = "SELL"
    /\ \E o \in {calculate_sell_market_price(market_call.positions,
                       market_call.amount_to_match, market_call.order_type)} :
          market_call' = [market_call EXCEPT !.status = o.status, !.error = o.error,
                                             !.ret = o.ret]
    /\ UNCHANGED <<rpc, http, rlp_call, tx_call, signers, contexts, sig_log, u256_call,
                   eip_call, keccak_call, l2_call, client, threads, http_log>>

NextMarket == CalculateBuyMarketPrice \/ CalculateSellMarketPrice

SpecMarket == InitMarket /\ [][NextMarket]_vars

\* what the first k levels of the book of the call add up to, in
\* ten-thousandths: size*price for a buy, size for a sell
RECURSIVE Accumulated(_)
Accumulated(k) ==
    IF k = 0 THEN 0
    ELSE Accumulated(k - 1)
         + (IF market_call.side = "BUY"
            THEN market_call.levels[k].size * market_call.levels[k].price
            ELSE 100 * market_call.levels[k].size)

\* the levels at which the accumulated amount has reached the target
ReachingLevels ==
    {k \in 1..Len(market_call.levels) : Accumulated(k) >= 100 * market_call.amount_to_match}

MarketCallDone == market_call.status \in {"ok", "error"}

\* C22: a market-price calculation returns the price of the first level, in
\* the order given, at which the accumulated size*price (size for a sell) has
\* reached amount_to_match; it raises "No match" for an empty book, and for
\* FOK when no level reaches the target; for the other order types it then
\* returns the price of the last level.
C22_MarketPriceWalk ==
    MarketCallDone =>
        IF market_call.levels = <<>>
        THEN market_call.status = "error" /\ market_call.error = "No match"
        ELSE IF ReachingLevels # {}
        THEN /\ market_call.status = "ok"
             /\ \E k \in ReachingLevels :
                   /\ \A j \in ReachingLevels : k <= j
                   /\ market_call.ret = market_call.levels[k].price
        ELSE IF market_call.order_type = "FOK"
        THEN market_call.status = "error" /\ market_call.error = "No match"
        ELSE /\ market_call.status = "ok"
             /\ market_call.ret = market_call.levels[Len(market_call.levels)].price

\* a buy that stops at its second level exactly on the target, the first and
\* the last level having other prices
C22_Witness ==
    /\ market_call.status = "ok"
    /\ market_call.side = "BUY"
    /\ Len(market_call.levels) = 3
    /\ ReachingLevels = {2, 3}
    /\ Accumulated(2) = 100 * market_call.amount_to_match
    /\ market_call.ret = market_call.levels[2].price
    /\ market_call.ret # market_call.levels[1].price
    /\ market_call.ret # market_call.levels[3].price

-----------------------------------------------------------------------------
(* The life of the secp256k1 context of a Signer.                             *)

\* the live Signer objects that hold context c
OwnersOf(c) == {i \in SignerSlots : signers[i].state = "live" /\ signers[i].ctx_ = c}

\* C23: the context a Signer creates is owned by that instance alone and
\* released on every path: a context that is still live belongs to exactly
\* one live Signer, so a failed construction and a destroyed signer leave
\* their context destroyed, and no two live signers share one.
C23_ContextOwnedAndReleased ==
    \A c \in 1..Len(contexts) :
        /\ Cardinality(OwnersOf(c)) <= 1
        /\ contexts[c] = "live" <=> OwnersOf(c) # {}

\* but for a key that is not hexadecimal, every path releases the context
C23_ReleasedUnlessBadHex ==
    \A c \in 1..Len(contexts) :
        /\ Cardinality(OwnersOf(c)) <= 1
        /\ (contexts[c] = "live" /\ OwnersOf(c) = {})
              => \E i \in SignerSlots : /\ signers[i].ctx_ = c
                                        /\ signers[i].state = "failed"
                                        /\ signers[i].error = "invalid_argument"
        /\ OwnersOf(c) # {} => contexts[c] = "live"

\* a construction that failed on its key's hex digits, its context still live
C23_LeakedContext ==
    \E i \in SignerSlots :
        /\ signers[i].state = "failed"
        /\ signers[i].input = BadHexKey
        /\ contexts[signers[i].ctx_] = "live"

-----------------------------------------------------------------------------
(* The signature items of the signed payload, under SpecTx *)

\* C25: in the signed payload r and s are canonical RLP integers: the byte
\* strings encoded as items 8 and 9 are r and s of the signature without any
\* leading zero byte.
C25_SignatureItemsCanonical ==
    tx_call.out.status = "signed" =>
        /\ Len(SignedItems) = 9
        /\ \A k \in {8, 9} :
              /\ RlpIsString(SignedItems[k])
              /\ RlpStringValue(SignedItems[k]) # <<>>
                    => RlpStringValue(SignedItems[k])[1] # 0
        /\ RlpStringValue(SignedItems[8]) = StripZeros(tx_call.out.r)
        /\ RlpStringValue(SignedItems[9]) = StripZeros(tx_call.out.s)

\* whatever the signature, the 32 bytes of r and of s are in the payload as
\* they are
C25_SignatureItemsVerbatim ==
    tx_call.out.status = "signed" =>
        /\ Len(SignedItems) = 9
        /\ RlpStringValue(SignedItems[8]) = tx_call.out.r
        /\ RlpStringValue(SignedItems[9]) = tx_call.out.s

\* a transaction signed with a signature whose r starts with a zero byte
C25_LeadingZeroSent ==
    /\ tx_call.out.status = "signed"
    /\ tx_call.out.r[1] = 0
    /\ SignedItems[8] = <<160>> \o tx_call.out.r

-----------------------------------------------------------------------------
(* The stored auth mode of the client, under SpecClient *)

\* the level that follows from what the client holds
HeldLevel ==
    CASE ~client.signer_.null /\ client.creds_.has_value -> L2
      [] ~client.signer_.null /\ ~client.creds_.has_value -> L1
      [] client.signer_.null -> L0

\* C26: after any sequence of construction, set_api_creds and deauthenticate
\* the stored mode is the level derived from what the client holds: L2 iff a
\* signer and credentials are present, L1 iff a signer without credentials, L0
\* iff no signer; a client at L0 without signer stays there, so set_api_creds
\* without signer leaves it at L0 and a deauthenticated client is never
\* authenticated again.
C26_ModeIsHeldLevel ==
    /\ [](client.live => client.mode_ = HeldLevel)
    /\ [][(client.live /\ client.signer_.null)
             => (client'.signer_.null /\ client'.mode_ = L0)]_vars

\* set_api_creds has stored credentials in a client without signer, which
\* is still at L0
C26_Witness ==
    /\ threads[1].op = "set_api_creds"
    /\ threads[1].before.signer_.null
    /\ threads[1].before.mode_ = L0
    /\ client.creds_.has_value
    /\ client.signer_.null
    /\ client.mode_ = L0

-----------------------------------------------------------------------------
(* The body signed and the body sent, under SpecClient *)

\* the requests of the last call that carry L2 headers
LastL2Requests ==
    {k \in (threads[1].sent_before + 1)..Len(http_log) :
        "POLY_API_KEY" \in DOMAIN http_log[k].headers}

\* the signature create_l2_headers gives for the request as it was sent
SignatureOverSent(rq, creds) ==
    l2_signature(creds.api_secret, rq.headers["POLY_TIMESTAMP"], rq.method, rq.path,
                 rq.body).signature

\* C24: for every L2-authenticated request the client issues, the body in the
\* HMAC-signed message is the body transmitted, also for requests without
\* payload: the signature sent is the one over timestamp, method, path and
\* the transmitted body.
C24_SignedBodyIsSentBody ==
    \A k \in LastL2Requests :
        http_log[k].headers["POLY_SIGNATURE"]
            = SignatureOverSent(http_log[k], threads[1].before.creds_)

\* a DELETE without payload is signed over the empty body and sent with "{}"
C24_EmptySignedBracesSent ==
    \E k \in LastL2Requests :
        /\ threads[1].op \in {"cancel_all", "drop_notifications", "delete_api_key"}
        /\ http_log[k].body = <<"{", "}">>
        /\ http_log[k].headers["POLY_SIGNATURE"]
              = l2_signature(threads[1].before.creds_.api_secret,
                             http_log[k].headers["POLY_TIMESTAMP"], http_log[k].method,
                             http_log[k].path, <<>>).signature
        /\ http_log[k].headers["POLY_SIGNATURE"]
              # SignatureOverSent(http_log[k], threads[1].before.creds_)

\* every other L2 request is signed over what it sends
C24_SignedBodyIsSentBodyElsewhere ==
    \A k \in LastL2Requests :
        threads[1].op \notin {"cancel_all", "drop_notifications", "delete_api_key"} =>
            http_log[k].headers["POLY_SIGNATURE"]
                = SignatureOverSent(http_log[k], threads[1].before.creds_)

\* an L2 request with a payload has been sent
C24_PayloadRequestSent ==
    \E k \in LastL2Requests : threads[1].op = "cancel" /\ http_log[k].body # <<>>

-----------------------------------------------------------------------------
(* The signer, the order builder and the credentials while absent, under      *)
(* SpecClient                                                                 *)

\* the operations that go through signer_, builder_ or creds_
DereferencingOps ==
    L1Endpoints \cup L2Endpoints \cup ComposedEndpoints \cup {"calculate_market_price"}

\* C27: no public operation uses the signer, the order builder or the
\* credentials while they are absent: a call of an operation that goes
\* through one of them has gone through nothing absent, and on a client
\* without signer, at L0 after construction or after deauthenticate, it ended
\* with an exception.
C27_NoUseWhileAbsent ==
    LET t == threads[1]
    IN  t.op \in DereferencingOps =>
            /\ ~t.absent
            /\ t.before.signer_.null => t.status = "error"

\* calculate_market_price on a deauthenticated client went through the empty
\* builder_
C27_ThroughEmptyBuilder ==
    /\ threads[1].op = "calculate_market_price"
    /\ threads[1].before.mode_ = L0
    /\ ~threads[1].before.builder_
    /\ threads[1].absent
    /\ threads[1].status \in {"ok", "crashed"}

\* every other operation that goes through one of the three is rejected by
\* its level check on a client that lacks it
C27_OthersRejectedFirst ==
    LET t == threads[1]
    IN  (t.op \in DereferencingOps \ {"calculate_market_price"}) =>
            /\ ~t.absent
            /\ t.before.signer_.null =>
                   /\ t.status = "error"
                   /\ t.error \in {"L1 authentication required",
                                    "L2 authentication required"}
                   /\ Len(http_log) = t.sent_before

-----------------------------------------------------------------------------
(* EthRpcClient::wait_for_receipt and ApprovalHelper::ensure_approvals,       *)
(* src/src/order_builder.cpp, a step for every RPC call, every test of the    *)
(* elapsed time and every pause.                                              *)

\* what rpc_call("eth_getTransactionReceipt") comes to: a receipt, a null
\* result, or an exception
PollAnswers == {"receipt", "null", "error"}

\* the whole seconds an RPC call takes, and those by which a pause of
\* sleep_for(2s) runs over
MaxRpcSeconds == 1
MaxOversleep == 0

\* std::this_thread::sleep_for(std::chrono::seconds(2))
PollPause == 2

\* wait_for_receipt(tx_hash): int timeout_seconds = 60
DefaultTimeout == 60

\* variant with a defect: the limit has to be exceeded
timed_out_late(elapsed, timeout_seconds) == elapsed > timeout_seconds

\* if (elapsed >= timeout_seconds)
timed_out(elapsed, timeout_seconds) == elapsed >= timeout_seconds

\* has_usdc_exchange_approval, has_usdc_neg_risk_approval,
\* has_ctf_exchange_approval, has_ctf_neg_risk_approval: the token asked and
\* the operator asked about, in the order of ensure_approvals
has_query ==
    <<[token |-> "USDC", operator |-> "EXCHANGE"],
      [token |-> "USDC", operator |-> "NEG_RISK_EXCHANGE"],
      [token |-> "CTF", operator |-> "EXCHANGE"],
      [token |-> "CTF", operator |-> "NEG_RISK_EXCHANGE"]>>

\* variant with a defect: the second and the third transaction exchanged
approve_tx_crossed ==
    <<[token |-> "USDC", operator |-> "EXCHANGE"],
      [token |-> "CTF", operator |-> "EXCHANGE"],
      [token |-> "USDC", operator |-> "NEG_RISK_EXCHANGE"],
      [token |-> "CTF", operator |-> "NEG_RISK_EXCHANGE"]>>

\* approve_usdc_for_exchange, approve_usdc_for_neg_risk_exchange,
\* approve_ctf_for_exchange, approve_ctf_for_neg_risk_exchange: tx.to and the
\* operator in tx.data
approve_tx ==
    <<[token |-> "USDC", operator |-> "EXCHANGE"],
      [token |-> "USDC", operator |-> "NEG_RISK_EXCHANGE"],
      [token |-> "CTF", operator |-> "EXCHANGE"],
      [token |-> "CTF", operator |-> "NEG_RISK_EXCHANGE"]>>

\* the 32-byte word eth_call answers with: zero, or not
ZeroWord == <<"0","x">> \o [i \in 1..64 |-> "0"]
NodeWord(set) == IF set THEN <<"0","x">> \o [i \in 1..64 |-> IF i = 64 THEN "1" ELSE "0"] ELSE ZeroWord

\* return allowance != "0x00...00"; return result != "0x00...00";
has_approval(word) == word # ZeroWord

Event(kind, pair) == [kind |-> kind, token |-> pair.token, operator |-> pair.operator]

\* auto start = steady_clock::now(); while (true) {
StartWait(r, timeout_seconds) ==
    [r EXCEPT !.pc = "poll", !.timeout_seconds = timeout_seconds, !.clock = 0,
              !.elapsed = 0, !.polls = 0, !.paused = 0, !.last = "none"]

\* wait_for_receipt returns the receipt: to its caller, or into approve_*,
\* which returns into ensure_approvals, where the next approval is examined
\* or all_set is returned
ReceiptReturned(r) ==
    IF r.op = "wait_for_receipt" THEN [r EXCEPT !.pc = "returned", !.ret = "receipt"]
    ELSE LET mined == [r EXCEPT !.events = Append(@, Event("receipt", approve_tx[r.step])),
                                !.approved = @ \cup {approve_tx[r.step]}]
         IN  IF r.step = Len(has_query)
             THEN [mined EXCEPT !.pc = "returned", !.ret = IF r.all_set THEN "true" ELSE "false"]
             ELSE [mined EXCEPT !.pc = "has", !.step = @ + 1]

RpcThrew(r, error) == [r EXCEPT !.pc = "threw", !.error = error]

RpcUnchanged ==
    UNCHANGED <<market_call, http, rlp_call, tx_call, signers, contexts, sig_log, u256_call,
                eip_call, keccak_call, l2_call, client, threads, http_log>>

\* try { result = rpc_call("eth_getTransactionReceipt"); if (!result.is_null())
\* return result; } catch (...) {}
Poll ==
    /\ rpc.pc = "poll"
    /\ \E answer \in PollAnswers, seconds \in 0..MaxRpcSeconds :
          LET polled == [rpc EXCEPT !.polls = @ + 1, !.last = answer,
                                    !.clock = @ + seconds]
          IN  rpc' = IF answer = "receipt" THEN ReceiptReturned(polled)
                     ELSE [polled EXCEPT !.pc = "elapsed"]
    /\ RpcUnchanged

\* elapsed = seconds(steady_clock::now() - start); if (elapsed >= timeout_seconds)
\* throw std::runtime_error("Timeout waiting for transaction receipt");
CheckElapsed ==
    /\ rpc.pc = "elapsed"
    /\ rpc' = IF timed_out(rpc.clock, rpc.timeout_seconds)
              THEN [RpcThrew(rpc, "Timeout waiting for transaction receipt")
                       EXCEPT !.elapsed = rpc.clock]
              ELSE [rpc EXCEPT !.pc = "sleep", !.elapsed = rpc.clock]
    /\ RpcUnchanged

\* std::this_thread::sleep_for(std::chrono::seconds(2)): two seconds at least
Sleep ==
    /\ rpc.pc = "sleep"
    /\ \E over \in 0..MaxOversleep :
          rpc' = [rpc EXCEPT !.pc = "poll", !.clock = @ + PollPause + over,
                             !.paused = PollPause + over]
    /\ RpcUnchanged

\* the timeouts wait_for_receipt is called with
TimeoutInputs == {-1, 0, 1, 2, 5, 6}

InitReceipt ==
    /\ rlp_call = NoRlpCall
    /\ tx_call = NoTxCall
    /\ signers = [i \in SignerSlots |-> NoSigner]
    /\ contexts = <<>>
    /\ sig_log = EmptyBag
    /\ u256_call = NoU256Call
    /\ eip_call = NoEipCall
    /\ keccak_call = NoKeccakCall
    /\ l2_call = NoL2Call
    /\ client = NoClient
    /\ threads = NoThreads
    /\ http_log = <<>>
    /\ market_call = NoMarketCall
    /\ \E timeout_seconds \in TimeoutInputs :
          rpc = StartWait([NoRpc EXCEPT !.op = "wait_for_receipt"], timeout_seconds)
    /\ http = NoHttp

NextReceipt == Poll \/ CheckElapsed \/ Sleep

SpecReceipt == InitReceipt /\ [][NextReceipt]_vars

\* the thread that called wait_for_receipt keeps running, and every RPC call
\* returns
SpecReceiptFair == SpecReceipt /\ WF_vars(NextReceipt)

\* what holds at every point of a wait_for_receipt call
ReceiptSafety ==
    /\ rpc.pc = "returned" =>
           rpc.ret = "receipt" /\ rpc.last = "receipt" /\ rpc.polls >= 1
    /\ rpc.pc = "threw" =>
           /\ rpc.error = "Timeout waiting for transaction receipt"
           /\ rpc.last \in {"null", "error"}
           /\ rpc.polls >= 1
           /\ rpc.elapsed >= rpc.timeout_seconds
    /\ rpc.pc = "sleep" =>
           rpc.last \in {"null", "error"} /\ rpc.elapsed < rpc.timeout_seconds
    /\ (rpc.pc = "poll" /\ rpc.polls > 0) =>
           /\ rpc.last \in {"null", "error"}
           /\ rpc.elapsed < rpc.timeout_seconds
           /\ rpc.paused >= 2

\* C30: wait_for_receipt terminates when every RPC call returns; it returns
\* only a receipt that is not null, and else throws the timeout error at the
\* first poll after which the elapsed seconds have reached timeout_seconds;
\* an RPC error or a null result is never passed on: it is followed by a pause
\* of two seconds and another poll; at least one poll is made whatever the
\* timeout.
C30_WaitForReceipt ==
    /\ []ReceiptSafety
    /\ <>(rpc.pc \in {"returned", "threw"})

\* a timeout of 5 seconds thrown at the third poll, after an RPC error and a
\* null result
C30_Witness ==
    /\ rpc.op = "wait_for_receipt"
    /\ rpc.pc = "threw"
    /\ rpc.timeout_seconds = 5
    /\ rpc.polls = 3
    /\ rpc.elapsed = 5

\* a timeout that is negative: one poll, then the timeout error
C30_OnePollAtLeast ==
    /\ rpc.pc = "threw"
    /\ rpc.timeout_seconds = -1
    /\ rpc.polls = 1

-----------------------------------------------------------------------------
(* ApprovalHelper::ensure_approvals: the four checks, and for each one that   *)
(* fails the calls of approve_*.  An exception of an RPC call leaves          *)
(* ensure_approvals.                                                          *)

\* if (!has_..._approval()) { all_set = false; approve_...(); }: the eth_call
HasApproval ==
    /\ rpc.pc = "has"
    /\ \E answered \in BOOLEAN :
          rpc' = IF ~answered THEN RpcThrew(rpc, "RPC request failed")
                 ELSE LET has == has_approval(NodeWord(has_query[rpc.step] \in rpc.approved))
                          seen == [rpc EXCEPT !.events =
                                      Append(@, Event(IF has THEN "has" ELSE "has not",
                                                      has_query[rpc.step]))]
                      IN  IF ~has THEN [seen EXCEPT !.all_set = FALSE, !.pc = "get_nonce"]
                          ELSE IF rpc.step = Len(has_query)
                          THEN [seen EXCEPT !.pc = "returned",
                                            !.ret = IF rpc.all_set THEN "true" ELSE "false"]
                          ELSE [seen EXCEPT !.step = @ + 1]
    /\ RpcUnchanged

\* tx.nonce = rpc_.get_nonce(address_);
GetNonce ==
    /\ rpc.pc = "get_nonce"
    /\ \E answered \in BOOLEAN :
          rpc' = IF answered THEN [rpc EXCEPT !.pc = "get_gas_price"]
                 ELSE RpcThrew(rpc, "RPC request failed")
    /\ RpcUnchanged

\* tx.gas_price = rpc_.get_gas_price();
GetGasPrice ==
    /\ rpc.pc = "get_gas_price"
    /\ \E answered \in BOOLEAN :
          rpc' = IF answered THEN [rpc EXCEPT !.pc = "send"]
                 ELSE RpcThrew(rpc, "RPC request failed")
    /\ RpcUnchanged

\* signed_tx = tx.sign(private_key_); tx_hash = rpc_.send_raw_transaction(signed_tx);
\* rpc_.wait_for_receipt(tx_hash);
SendRawTransaction ==
    /\ rpc.pc = "send"
    /\ \E answered \in BOOLEAN :
          rpc' = IF answered
                 THEN StartWait([rpc EXCEPT !.events = Append(@, Event("sent", approve_tx[rpc.step]))],
                                DefaultTimeout)
                 ELSE RpcThrew(rpc, "RPC request failed")
    /\ RpcUnchanged

\* the approvals the chain holds when ensure_approvals is called
ApprovalSets == SUBSET {has_query[k] : k \in 1..4}

InitApprovals ==
    /\ rlp_call = NoRlpCall
    /\ tx_call = NoTxCall
    /\ signers = [i \in SignerSlots |-> NoSigner]
    /\ contexts = <<>>
    /\ sig_log = EmptyBag
    /\ u256_call = NoU256Call
    /\ eip_call = NoEipCall
    /\ keccak_call = NoKeccakCall
    /\ l2_call = NoL2Call
    /\ client = NoClient
    /\ threads = NoThreads
    /\ http_log = <<>>
    /\ market_call = NoMarketCall
    /\ \E approved \in ApprovalSets :
          rpc = [NoRpc EXCEPT !.op = "ensure_approvals", !.pc = "has", !.step = 1,
                              !.approved = approved]
    /\ http = NoHttp

NextApprovals ==
    HasApproval \/ GetNonce \/ GetGasPrice \/ SendRawTransaction
        \/ Poll \/ CheckElapsed \/ Sleep

SpecApprovals == InitApprovals /\ [][NextApprovals]_vars

\* USDC for exchange, USDC for neg-risk exchange, CTF for exchange, CTF for
\* neg-risk exchange
FourApprovals ==
    <<<<"USDC", "EXCHANGE">>, <<"USDC", "NEG_RISK_EXCHANGE">>,
      <<"CTF", "EXCHANGE">>, <<"CTF", "NEG_RISK_EXCHANGE">>>>

PairOf(e) == <<e.token, e.operator>>

IsCheck(e) == e.kind \in {"has", "has not"}
IsMissing(e) == e.kind = "has not"
IsSent(e) == e.kind = "sent"

\* the approvals examined, those found missing, and the transactions sent,
\* each in the order of the events
Examined == SelectSeq(rpc.events, IsCheck)
Missing == SelectSeq(rpc.events, IsMissing)
Sent == SelectSeq(rpc.events, IsSent)

PairsOf(es) == [k \in 1..Len(es) |-> PairOf(es[k])]

\* C21: ensure_approvals returns true iff all four approvals were found set,
\* and then it has sent no transaction; else it returns false, having sent one
\* approval transaction for exactly each approval found missing, in the order
\* USDC/exchange, USDC/neg-risk, CTF/exchange, CTF/neg-risk; at every point a
\* transaction follows the failed check of its own approval, and the next
\* approval is examined only after the receipt of the transaction before.
C21_EnsureApprovals ==
    rpc.op = "ensure_approvals" =>
        /\ \A i \in 1..Len(rpc.events) :
              LET e == rpc.events[i]
              IN  /\ IsCheck(e) =>
                        i = 1 \/ rpc.events[i - 1].kind \in {"has", "receipt"}
                  /\ IsSent(e) =>
                        /\ i > 1 /\ IsMissing(rpc.events[i - 1])
                        /\ PairOf(rpc.events[i - 1]) = PairOf(e)
                  /\ e.kind = "receipt" =>
                        /\ i > 1 /\ IsSent(rpc.events[i - 1])
                        /\ PairOf(rpc.events[i - 1]) = PairOf(e)
        /\ PairsOf(Examined) = SubSeq(FourApprovals, 1, Len(Examined))
        /\ rpc.pc = "returned" =>
              /\ Len(Examined) = 4
              /\ rpc.ret \in {"true", "false"}
              /\ rpc.ret = "true" <=> Missing = <<>>
              /\ rpc.ret = "true" => Sent = <<>>
              /\ PairsOf(Sent) = PairsOf(Missing)
              /\ rpc.events[Len(rpc.events)].kind \in {"has", "receipt"}

\* ensure_approvals has returned false after two transactions, for the first
\* and for the last approval
C21_Witness ==
    /\ rpc.op = "ensure_approvals"
    /\ rpc.pc = "returned"
    /\ rpc.ret = "false"
    /\ PairsOf(Sent) = <<FourApprovals[1], FourApprovals[4]>>
    /\ Len(rpc.events) = 8

\* ensure_approvals has returned true without a transaction
C21_AllSet ==
    /\ rpc.op = "ensure_approvals"
    /\ rpc.pc = "returned"
    /\ rpc.ret = "true"
    /\ rpc.events # <<>>
    /\ Sent = <<>>

-----------------------------------------------------------------------------
(* class HttpClient, src/src/http_client.cpp: construction, moves and         *)
(* destruction, start_heartbeat and stop_heartbeat, the heartbeat thread, and *)
(* requests under client_mutex_.  One thread owns the objects; a second one   *)
(* sends requests through them while they are neither moved nor destroyed.    *)

\* the passes of the inner loop of the heartbeat thread: interval_seconds * 10
HeartbeatTicks == 2

HttpUnchanged ==
    UNCHANGED <<market_call, rpc, rlp_call, tx_call, signers, contexts, sig_log, u256_call,
                eip_call, keccak_call, l2_call, client, threads, http_log>>

CallerIdle == http.caller.pc = "idle" /\ ~http.crashed

CallerAt(pc, op, i, other, noop) ==
    [pc |-> pc, op |-> op, obj |-> i, other |-> other, noop |-> noop]

\* the requester is not inside a request on object i
NoRequestOn(i) == http.requester.pc = "idle" \/ http.requester.obj # i

\* variant with a defect: the flag is left as it is
stop_store_keep(flag) == flag

\* stop_heartbeat: heartbeat_running_.store(false)
stop_store(flag) == FALSE

\* variant with a defect: a request takes no lock
lock_free_always(holder) == TRUE

\* std::lock_guard<std::mutex> lock(client_mutex_) can be taken
lock_free(holder) == holder = "free"

\* HttpClient(host): heartbeat_running_(false), no thread
HttpConstruct(i) ==
    /\ CallerIdle
    /\ http.obj[i].state = "none"
    /\ http' = [http EXCEPT !.obj[i] = [NoHttpObj EXCEPT !.state = "live", !.conn = TRUE],
                            !.caller = CallerAt("idle", "HttpClient", i, 0, FALSE)]
    /\ HttpUnchanged

\* start_heartbeat: a no-op when the flag is set; else the flag is set and the
\* thread started.  Assigning to a std::thread that is joinable ends the
\* process.
StartHeartbeat(i) ==
    /\ CallerIdle
    /\ http.obj[i].state = "live"
    /\ http' = IF http.obj[i].flag
               THEN [http EXCEPT !.caller = CallerAt("idle", "start_heartbeat", i, 0, TRUE)]
               ELSE IF http.obj[i].thread # "none"
               THEN [http EXCEPT !.crashed = TRUE]
               ELSE [http EXCEPT !.obj[i].flag = TRUE, !.obj[i].thread = "running",
                                 !.obj[i].hb = "top", !.obj[i].ticks = 0,
                                 !.obj[i].stopped = FALSE,
                                 !.caller = CallerAt("idle", "start_heartbeat", i, 0, FALSE)]
    /\ HttpUnchanged

\* stop_heartbeat, its first statement
StopHeartbeat(i) ==
    /\ CallerIdle
    /\ http.obj[i].state = "live"
    /\ http' = [http EXCEPT !.obj[i].flag = stop_store(@),
                            !.caller = CallerAt("join", "stop_heartbeat", i, 0,
                                                http.obj[i].thread # "running")]
    /\ HttpUnchanged

\* ~HttpClient: stop_heartbeat()
HttpDestroy(i) ==
    /\ CallerIdle
    /\ http.obj[i].state \in {"live", "moved_from"}
    /\ NoRequestOn(i)
    /\ http' = [http EXCEPT !.obj[i].flag = stop_store(@),
                            !.caller = CallerAt("join", "destroy", i, 0, FALSE)]
    /\ HttpUnchanged

\* HttpClient(HttpClient&& other): object j from object i.  The connection is
\* moved, heartbeat_running_ is initialised with other's flag,
\* heartbeat_thread_ is default-constructed; then other.stop_heartbeat()
MoveConstruct(j, i) ==
    /\ CallerIdle
    /\ i # j
    /\ http.obj[j].state = "none"
    /\ http.obj[i].state = "live"
    /\ NoRequestOn(i)
    /\ http' = [http EXCEPT !.obj[j] = [NoHttpObj EXCEPT !.state = "live", !.conn = TRUE,
                                                         !.flag = http.obj[i].flag,
                                                         !.by_move = TRUE],
                            !.obj[i].conn = FALSE,
                            !.obj[i].flag = stop_store(@),
                            !.caller = CallerAt("join", "move_ctor", i, j, FALSE)]
    /\ HttpUnchanged

\* operator=(HttpClient&& other): object j = std::move(object i), its first
\* statement: stop_heartbeat() on this
MoveAssign(j, i) ==
    /\ CallerIdle
    /\ i # j
    /\ http.obj[j].state = "live"
    /\ http.obj[i].state = "live"
    /\ NoRequestOn(i) /\ NoRequestOn(j)
    /\ http' = [http EXCEPT !.obj[j].flag = stop_store(@),
                            !.caller = CallerAt("join", "move_assign", j, i, FALSE)]
    /\ HttpUnchanged

\* if (heartbeat_thread_.joinable()) heartbeat_thread_.join(); and what follows
\* the stop_heartbeat the caller is in
Join ==
    /\ http.caller.pc = "join"
    /\ ~http.crashed
    /\ LET i == http.caller.obj
           j == http.caller.other
           op == http.caller.op
           joined == [http EXCEPT !.obj[i].thread = "none", !.obj[i].hb = "none"]
       IN  /\ http.obj[i].thread # "running"
           /\ http' =
                 CASE op = "stop_heartbeat" ->
                         [joined EXCEPT !.obj[i].stopped = TRUE, !.caller.pc = "idle"]
                   [] op = "destroy" ->
                         [joined EXCEPT !.obj[i].state = "destroyed", !.caller.pc = "idle"]
                   [] op = "move_ctor" ->
                         [joined EXCEPT !.obj[i].state = "moved_from", !.caller.pc = "idle"]
                   [] op = "move_assign" ->
                         [joined EXCEPT !.obj[j].flag = stop_store(@),
                                        !.caller = CallerAt("join", "move_assign_other",
                                                            j, i, FALSE)]
                   [] OTHER ->
                         [joined EXCEPT !.obj[j].flag = http.obj[i].flag,
                                        !.obj[j].conn = TRUE,
                                        !.obj[i].conn = FALSE,
                                        !.obj[i].state = "moved_from",
                                        !.caller = CallerAt("idle", "move_assign", j, i, FALSE)]
    /\ HttpUnchanged

\* the heartbeat thread of object i: while (heartbeat_running_.load())
HbTop(i) ==
    /\ ~http.crashed
    /\ http.obj[i].thread = "running"
    /\ http.obj[i].hb = "top"
    /\ http' = IF http.obj[i].flag
               THEN [http EXCEPT !.obj[i].hb = "sleep", !.obj[i].ticks = 0]
               ELSE [http EXCEPT !.obj[i].hb = "none", !.obj[i].thread = "exited"]
    /\ HttpUnchanged

\* for (i = 0; i < interval_seconds * 10 && heartbeat_running_.load(); ++i)
\* sleep_for(100ms); if (!heartbeat_running_.load()) break;
HbSleep(i) ==
    /\ ~http.crashed
    /\ http.obj[i].thread = "running"
    /\ http.obj[i].hb = "sleep"
    /\ http' = IF http.obj[i].ticks < HeartbeatTicks /\ http.obj[i].flag
               THEN [http EXCEPT !.obj[i].ticks = @ + 1]
               ELSE IF ~http.obj[i].flag
               THEN [http EXCEPT !.obj[i].hb = "none", !.obj[i].thread = "exited"]
               ELSE [http EXCEPT !.obj[i].hb = "lock"]
    /\ HttpUnchanged

\* execute_get("/ok"): the lock_guard
HbLock(i) ==
    /\ ~http.crashed
    /\ http.obj[i].thread = "running"
    /\ http.obj[i].hb = "lock"
    /\ lock_free(http.obj[i].mutex)
    /\ http' = [http EXCEPT !.obj[i].hb = "flight", !.obj[i].mutex = "hb"]
    /\ HttpUnchanged

\* execute_get("/ok"): the request, any exception caught; the lock released.
\* Through a connection that was moved away the call is undefined: the
\* process dies, or the request goes on and fails
HbRequest(i) ==
    /\ ~http.crashed
    /\ http.obj[i].thread = "running"
    /\ http.obj[i].hb = "flight"
    /\ \E dies \in (IF http.obj[i].conn THEN {FALSE} ELSE BOOLEAN) :
          http' = IF dies THEN [http EXCEPT !.crashed = TRUE]
                  ELSE [http EXCEPT !.obj[i].hb = "top",
                                    !.obj[i].mutex = IF @ = "hb" THEN "free" ELSE @]
    /\ HttpUnchanged

\* a request of the second thread through object i: the lock_guard
RequestLock(i) ==
    /\ ~http.crashed
    /\ http.requester.pc = "idle"
    /\ http.obj[i].state = "live"
    /\ (http.caller.pc = "idle" \/ http.caller.op = "stop_heartbeat"
           \/ i \notin {http.caller.obj, http.caller.other})
    /\ lock_free(http.obj[i].mutex)
    /\ http' = [http EXCEPT !.requester = [pc |-> "flight", obj |-> i],
                            !.obj[i].mutex = "requester"]
    /\ HttpUnchanged

\* the request completes and the lock is released
RequestDone ==
    /\ ~http.crashed
    /\ http.requester.pc = "flight"
    /\ http' = [http EXCEPT !.requester = [pc |-> "idle", obj |-> 0],
                            !.obj[http.requester.obj].mutex =
                                IF @ = "requester" THEN "free" ELSE @]
    /\ HttpUnchanged

InitHttp ==
    /\ rlp_call = NoRlpCall
    /\ tx_call = NoTxCall
    /\ signers = [i \in SignerSlots |-> NoSigner]
    /\ contexts = <<>>
    /\ sig_log = EmptyBag
    /\ u256_call = NoU256Call
    /\ eip_call = NoEipCall
    /\ keccak_call = NoKeccakCall
    /\ l2_call = NoL2Call
    /\ client = NoClient
    /\ threads = NoThreads
    /\ http_log = <<>>
    /\ market_call = NoMarketCall
    /\ rpc = NoRpc
    /\ http = NoHttp

\* the steps of the heartbeat threads and of the requests
HeartbeatSteps ==
    \/ \E i \in HttpObjs : HbTop(i) \/ HbSleep(i) \/ HbLock(i) \/ HbRequest(i)
    \/ RequestDone

\* construction, start and stop, requests, destruction
NextHeartbeat ==
    \/ \E i \in HttpObjs :
          HttpConstruct(i) \/ StartHeartbeat(i) \/ StopHeartbeat(i) \/ HttpDestroy(i)
              \/ RequestLock(i)
    \/ Join
    \/ HeartbeatSteps

\* the same and the moves
NextHttp ==
    \/ NextHeartbeat
    \/ \E i, j \in HttpObjs : MoveConstruct(j, i) \/ MoveAssign(j, i)

SpecHttp == InitHttp /\ [][NextHttp]_vars

\* without moves, and with threads that keep running: each heartbeat thread
\* takes its steps and gets the lock it waits for when that is free again
\* and again, the requests in flight complete, and a join goes on when the
\* thread has exited
SpecHeartbeatFair ==
    /\ InitHttp /\ [][NextHeartbeat]_vars
    /\ \A i \in HttpObjs : WF_vars(HbTop(i) \/ HbSleep(i) \/ HbRequest(i))
    /\ \A i \in HttpObjs : SF_vars(HbLock(i))
    /\ WF_vars(RequestDone)
    /\ WF_vars(Join)

\* HttpClient::is_heartbeat_running
is_heartbeat_running(i) == http.obj[i].flag

\* the clients there are, moved-from ones included
HttpClients == {i \in HttpObjs : http.obj[i].state \in {"live", "moved_from"}}

\* C28: whatever the sequence and interleaving of start_heartbeat,
\* stop_heartbeat, move construction, move assignment and destruction, between
\* the calls is_heartbeat_running() is true of a client iff a heartbeat thread
\* of that client is alive, and start_heartbeat on a running client did
\* nothing.
C28_FlagIffThreadAlive ==
    CallerIdle =>
        /\ \A i \in HttpClients :
              is_heartbeat_running(i) <=> http.obj[i].thread = "running"
        /\ (http.caller.op = "start_heartbeat" /\ http.caller.noop) =>
              http.obj[http.caller.obj].thread = "running"

\* a client made by the move constructor from a running one reports a
\* heartbeat and has no thread
C28_MovedFlagWithoutThread ==
    /\ CallerIdle
    /\ \E j \in HttpClients :
          /\ http.obj[j].by_move
          /\ is_heartbeat_running(j)
          /\ http.obj[j].thread = "none"

\* the clients that the move constructor did not make keep the statement
C28_FlagIffThreadAliveUnlessMoved ==
    CallerIdle =>
        \A i \in HttpClients :
            ~http.obj[i].by_move =>
                (is_heartbeat_running(i) <=> http.obj[i].thread = "running")

\* start_heartbeat on a client made by the move constructor did nothing: the
\* client has no heartbeat and cannot get one before stop_heartbeat
C28_StartIsNoOpAfterMove ==
    /\ CallerIdle
    /\ http.caller.op = "start_heartbeat" /\ http.caller.noop
    /\ http.obj[http.caller.obj].thread = "none"

-----------------------------------------------------------------------------
(* stop_heartbeat and the requests, under SpecHeartbeatFair *)

InStopHeartbeat(i) ==
    /\ http.caller.pc = "join"
    /\ http.caller.op = "stop_heartbeat"
    /\ http.caller.obj = i

StopHeartbeatReturned(i) ==
    /\ http.caller.pc = "idle"
    /\ http.caller.op = "stop_heartbeat"
    /\ http.caller.obj = i

\* after stop_heartbeat has returned and until start_heartbeat is called, the
\* client has no heartbeat thread and no heartbeat request
QuietOnceStopped ==
    \A i \in HttpObjs :
        http.obj[i].stopped =>
            /\ http.obj[i].thread # "running"
            /\ http.obj[i].hb \notin {"lock", "flight"}
            /\ http.obj[i].mutex # "hb"

\* a heartbeat request and a caller's request through the same client are not
\* in flight together
OneRequestInFlight ==
    \A i \in HttpObjs :
        ~(/\ http.obj[i].hb = "flight"
          /\ http.requester.pc = "flight" /\ http.requester.obj = i)

C29_ThreadWaitsForLock ==
    \E i \in HttpObjs :
        /\ InStopHeartbeat(i)
        /\ http.obj[i].hb = "lock"
        /\ http.obj[i].mutex = "requester"

=============================================================================
